---- MODULE Spec2Model ----
(***************************************************************************)
(* Model of the task hierarchy engine of doist: assembly of flat Task      *)
(* records into a forest (Tree::from_items), filtering (filter_list /      *)
(* State::filter), and the Default ordering of tasks (impl Ord for Task).  *)
(*                                                                         *)
(* Strings that the program orders or compares (ids, dates) are sequences  *)
(* of naturals; Option<T> is a sequence of length 0 (None) or 1 (Some).    *)
(***************************************************************************)
EXTENDS Integers, Sequences, FiniteSets, TLC

VARIABLES
    pc,       \* position of the command: "fetched", "assembled", "failed", "filtered", ...
    items,    \* the flat Vec<Task> handed to Tree::from_items
    tasks,    \* State::tasks, the forest (Vec<Tree<Task>>)
    err,      \* the error returned to the caller, "none" if there is none
    before,   \* the forest as it was when filter_list was entered
    params,   \* the Params of the list command used by filter_list
    left,     \* comparator check: the left Task
    right,    \* comparator check: the right Task
    ord,      \* comparator check: the Ordering returned by Task::cmp
    sibs,     \* listing: the forest handed to list_tasks_with_sort
    sort_by,  \* listing: the sort key, "None" for the Default key
    sorted,   \* listing: the Nodes in the order their rows are printed
    overflow_checks, \* the build checks integer overflow (debug) or wraps (release)
    projects, \* State::projects: the known projects, as records [id, name]
    printed,  \* grouped listing: the buckets in the order they are printed
    cparams,  \* completed: the Params of the command
    server,   \* completed: the response of the server to each cursor
    cursor,   \* completed: the cursor of the next request
    all_tasks,\* completed: the items collected so far
    requests, \* completed: the cursors of the requests sent, in order
    shown,    \* completed: the list handed to display_completed_tasks
    wparams,  \* add, edit, complete: the parameters of the command
    remote,   \* the task as the server holds it
    faults,   \* how often the client has sent each kind of request again
    sent      \* the create, update and close POSTs put on the wire, in order

groupVars == <<projects, printed>>
completedVars == <<cparams, server, cursor, all_tasks, requests, shown>>
writeVars == <<wparams, remote, faults, sent>>

vars == <<pc, items, tasks, err, before, params, left, right, ord, sibs, sort_by, sorted,
          overflow_checks, groupVars, completedVars, writeVars>>

-----------------------------------------------------------------------------
(* Bounds of the model *)

MaxTasks == 3      \* records in one assembly run, and distinct task ids
MaxDay == 2        \* due dates fall on the days 1..MaxDay
MaxOrder == 2      \* the manual order field is in 1..MaxOrder
MaxSibs == 3       \* Nodes in one sibling list that is sorted
MaxRequests == 4   \* requests of one run of the completed command
LastDay == 92      \* last day number of a date string
MaxChars == 4      \* pieces of a --duration string

-----------------------------------------------------------------------------
(* Option and string helpers *)

None == <<>>
Some(x) == <<x>>
IsSome(o) == o # <<>>
Unwrap(o) == o[1]

RECURSIVE Digits(_)
\* decimal representation of a natural, most significant digit first
Digits(n) == IF n < 10 THEN <<n>> ELSE Digits(n \div 10) \o <<n % 10>>

TaskIDs == {Digits(n) : n \in 1..MaxTasks}
ProjectIDs == {Digits(1), Digits(2)}

Range(s) == {s[i] : i \in 1..Len(s)}

\* Parts of the state a command does not use
GroupIdle == projects = <<>> /\ printed = <<>>

\* completed::Params without dates and flags; today is Local::now().date_naive():
\* its day number, days from Monday and day of the month
NoCompletedParams ==
    [since |-> <<>>, until |-> <<>>, range |-> "none", by_due_date |-> FALSE,
     fetch_all |-> FALSE, group_by |-> <<>>, project |-> <<>>, section |-> <<>>,
     today |-> [date |-> 0, weekday |-> 0, day |-> 1]]

WriteIdle == wparams = <<>> /\ remote = <<>> /\ faults = <<>> /\ sent = <<>>

CompletedIdle ==
    /\ cparams = NoCompletedParams
    /\ server = <<>>
    /\ cursor = <<>>
    /\ all_tasks = <<>>
    /\ requests = <<>>
    /\ shown = <<>>

-----------------------------------------------------------------------------
(* Task and its Treeable implementation *)

\* Priority, as u8
Normal == 1
High == 2
VeryHigh == 3
Urgent == 4

\* A Task with the fields the engine reads.
Task(i, par, proj) ==
    [id |-> i, parent_id |-> par, project_id |-> proj, section_id |-> None,
     labels |-> <<>>, order |-> 1, priority |-> Normal, due |-> None,
     duration |-> None, created_at |-> 0]

id(t) == t.id

parent_id(t) == t.parent_id

reset_parent_keep(t) == t

reset_parent(t) == [t EXCEPT !.parent_id = None]

-----------------------------------------------------------------------------
(* Ordering of tasks: impl Ord for Task *)

reverse(o) == CASE o = "Less" -> "Greater" [] o = "Greater" -> "Less" [] OTHER -> "Equal"

\* Ord for integers (Priority as u8, isize, DateTime instants)
cmp_int(a, b) == IF a < b THEN "Less" ELSE IF a > b THEN "Greater" ELSE "Equal"

RECURSIVE cmp_str(_, _)
\* Ord for String: lexicographic, a proper prefix first
cmp_str(a, b) ==
    IF a = <<>> /\ b = <<>> THEN "Equal"
    ELSE IF a = <<>> THEN "Less"
    ELSE IF b = <<>> THEN "Greater"
    ELSE IF Head(a) # Head(b) THEN cmp_int(Head(a), Head(b))
    ELSE cmp_str(Tail(a), Tail(b))

MinutesPerDay == 24 * 60

\* DueDate::date as the text the API sends: YYYY-MM-DD, YYYY-MM-DDTHH:MM:SS or
\* YYYY-MM-DDTHH:MM:SS with a zone (Z or an offset). day counts days, time the
\* minutes of the day, offset the minutes east of UTC.
DateOnly(d) == [day |-> d, time |-> None, offset |-> None]
Floating(d, t) == [day |-> d, time |-> Some(t), offset |-> None]
Zoned(d, t, o) == [day |-> d, time |-> Some(t), offset |-> Some(o)]

DueDate(date) == [date |-> date]

\* DateTime::parse_from_rfc3339: a date, a time and a zone are all required;
\* the value is the instant, in minutes.
parse_from_rfc3339(s) ==
    IF IsSome(s.time) /\ IsSome(s.offset)
    THEN Some(s.day * MinutesPerDay + Unwrap(s.time) - Unwrap(s.offset))
    ELSE None

exact_datetime(d) == parse_from_rfc3339(d.date)

\* self.due.as_ref().and_then(|d| d.exact_datetime())
due_exact(t) == IF IsSome(t.due) THEN exact_datetime(Unwrap(t.due)) ELSE None

cmp_priority_first(self, other) ==
    LET p == reverse(cmp_int(self.priority, other.priority))
        l == due_exact(self)
        r == due_exact(other)
        d == IF IsSome(l) /\ IsSome(r) THEN cmp_int(Unwrap(l), Unwrap(r))
             ELSE IF IsSome(l) THEN "Less"
             ELSE IF IsSome(r) THEN "Greater"
             ELSE "Equal"
        o == cmp_int(self.order, other.order)
    IN IF p # "Equal" THEN p
       ELSE IF d # "Equal" THEN d
       ELSE IF o # "Equal" THEN o
       ELSE cmp_str(self.id, other.id)

cmp_no_id(self, other) ==
    LET p == reverse(cmp_int(self.priority, other.priority))
        l == due_exact(self)
        r == due_exact(other)
        d == IF IsSome(l) /\ IsSome(r) THEN cmp_int(Unwrap(l), Unwrap(r))
             ELSE IF IsSome(l) THEN "Less"
             ELSE IF IsSome(r) THEN "Greater"
             ELSE "Equal"
    IN IF d # "Equal" THEN d
       ELSE IF p # "Equal" THEN p
       ELSE cmp_int(self.order, other.order)

\* Task::cmp
cmp(self, other) ==
    LET l == due_exact(self)
        r == due_exact(other)
        d == IF IsSome(l) /\ IsSome(r) THEN cmp_int(Unwrap(l), Unwrap(r))
             ELSE IF IsSome(l) THEN "Less"
             ELSE IF IsSome(r) THEN "Greater"
             ELSE "Equal"
        p == reverse(cmp_int(self.priority, other.priority))
        o == cmp_int(self.order, other.order)
    IN IF d # "Equal" THEN d
       ELSE IF p # "Equal" THEN p
       ELSE IF o # "Equal" THEN o
       ELSE cmp_str(self.id, other.id)

-----------------------------------------------------------------------------
(* Tree assembler: Tree::from_items *)

\* Two Records of the input share an id.
HasDuplicateID(its) ==
    \E i, j \in 1..Len(its) : i # j /\ id(its[i]) = id(its[j])

\* The index id -> Record: the ids present in the input.
Index(its) == {id(its[i]) : i \in 1..Len(its)}

\* The Record of the input with the given id (ids are unique when this is used).
Lookup(its, i) == its[CHOOSE k \in 1..Len(its) : id(its[k]) = i]

RECURSIVE Reappears(_, _, _, _)
\* Walk the parent chain upward from cur; TRUE when the id start comes back.
\* The walk gives up after fuel steps (a chain of distinct ids is no longer).
Reappears(its, start, cur, fuel) ==
    LET p == parent_id(cur) IN
    IF ~IsSome(p) \/ Unwrap(p) \notin Index(its) THEN FALSE
    ELSE IF Unwrap(p) = start THEN TRUE
    ELSE IF fuel = 0 THEN FALSE
    ELSE Reappears(its, start, Lookup(its, Unwrap(p)), fuel - 1)

\* The parent reference of t cannot be used: it is dangling or closes a cycle.
Unresolvable(its, t) ==
    /\ IsSome(parent_id(t))
    /\ \/ Unwrap(parent_id(t)) \notin Index(its)
       \/ Reappears(its, id(t), t, Len(its))

\* Every Record with an unusable parent reference gets its link severed.
Sever(its) ==
    [i \in 1..Len(its) |->
        IF Unresolvable(its, its[i]) THEN reset_parent(its[i]) ELSE its[i]]

RECURSIVE build_flat(_, _, _)
build_flat(its, par, d) ==
    LET kids == SelectSeq(its, LAMBDA t : parent_id(t) = par) IN
    [i \in 1..Len(kids) |->
        [item |-> kids[i],
         subitems |-> build_flat(its, Some(id(kids[i])), d),
         depth |-> d]]

RECURSIVE build(_, _, _)
\* The Nodes whose Record names par as its parent, in input order, each owning
\* its children, depth computed top-down.
build(its, par, d) ==
    LET kids == SelectSeq(its, LAMBDA t : parent_id(t) = par) IN
    [i \in 1..Len(kids) |->
        [item |-> kids[i],
         subitems |-> build(its, Some(id(kids[i])), d + 1),
         depth |-> d]]

from_items_unchecked(its) ==
    [err |-> "none", trees |-> build(Sever(its), None, 0)]

from_items(its) ==
    IF HasDuplicateID(its)
    THEN [err |-> "DuplicateID", trees |-> <<>>]
    ELSE [err |-> "none", trees |-> build(Sever(its), None, 0)]

-----------------------------------------------------------------------------
(* Filter engine: State::filter, and the predicates of filter_list *)

project_pred_neg(tree, p) == tree.item.project_id # p

\* list.rs: |tree| tree.project_id == *p.id
project_pred(tree, p) == tree.item.project_id = p

\* list.rs: |tree| tree.section_id.as_ref() == Some(&s.id)
section_pred(tree, s) == tree.item.section_id = Some(s)

\* list.rs: labels.iter().map(|l| l.id.clone()).any(|l| tree.labels.contains(&l))
label_pred(tree, ls) ==
    \E k \in 1..Len(ls) : ls[k].id \in Range(tree.item.labels)

\* A predicate handed to State::filter, as data.
Holds(pred, tree) ==
    CASE pred.kind = "filter" -> tree.item.id \in pred.arg
      [] pred.kind = "project" -> project_pred(tree, pred.arg)
      [] pred.kind = "section" -> section_pred(tree, pred.arg)
      [] pred.kind = "label" -> label_pred(tree, pred.arg)

RECURSIVE Survives(_, _, _)
\* Strict: the own Record matches. Expanding: it or some descendant matches.
Survives(tree, pred, expand) ==
    \/ Holds(pred, tree)
    \/ /\ expand
       /\ \E i \in 1..Len(tree.subitems) : Survives(tree.subitems[i], pred, expand)

RECURSIVE filter_rev(_, _, _)
filter_rev(trees, pred, expand) ==
    IF trees = <<>> THEN <<>>
    ELSE LET t == Head(trees)
             rest == filter_rev(Tail(trees), pred, expand)
         IN IF Survives(t, pred, expand)
            THEN rest \o <<[t EXCEPT !.subitems = filter_rev(t.subitems, pred, expand)]>>
            ELSE rest

RECURSIVE filter(_, _, _)
\* The pruned forest: surviving Nodes in their original order, each with its
\* pruned children.
filter(trees, pred, expand) ==
    IF trees = <<>> THEN <<>>
    ELSE LET t == Head(trees)
             rest == filter(Tail(trees), pred, expand)
         IN IF Survives(t, pred, expand)
            THEN <<[t EXCEPT !.subitems = filter(t.subitems, pred, expand)]>> \o rest
            ELSE rest

\* State::filter(pred): the one call the commands make, with the predicate
\* alone; a Node that fails it goes with its subtree.
state_filter(trees, pred) == filter(trees, pred, FALSE)

\* State::fetch_tree with the forest of the tasks that are in the filter,
\* and a variant of State::fetch_full_tree that does the same
fetch_full_tree_strict(its, ids) ==
    LET r == from_items(its) IN
    [err |-> r.err, trees |-> filter(r.trees, [kind |-> "filter", arg |-> ids], FALSE)]

fetch_tree(its, ids) ==
    LET r == from_items(its) IN
    [err |-> r.err, trees |-> filter(r.trees, [kind |-> "filter", arg |-> ids], FALSE)]

\* State::fetch_full_tree: the tasks in the filter with all their parents
fetch_full_tree(its, ids) ==
    LET r == from_items(its) IN
    [err |-> r.err, trees |-> filter(r.trees, [kind |-> "filter", arg |-> ids], TRUE)]

\* What the state knows: state.projects, state.sections, state.labels
Label(i, n) == [id |-> i, name |-> n]

\* "home" has an id that is not its name, "work" has its name as id, and
\* "office" has the name of "home" as id
KnownLabels == {Label("100", "home"), Label("work", "work"), Label("home", "office")}

SectionIDs == {Digits(1)}

\* Selection::optional: nothing selected, the selected one, or an error when
\* the selection names nothing the state knows
optional(selection, known) ==
    IF selection = None THEN [err |-> "none", value |-> None]
    ELSE IF Unwrap(selection) \in known THEN [err |-> "none", value |-> selection]
    ELSE [err |-> "no selection", value |-> None]

\* LabelSelect::labels with Selection::AllowEmpty
labels(selection, known) ==
    IF \A k \in 1..Len(selection) : selection[k] \in known
    THEN [err |-> "none", value |-> selection]
    ELSE [err |-> "no selection", value |-> <<>>]

\* filter_list: the project, section and label selections, one pass each.
filter_list(trees, ps) ==
    LET project == optional(ps.project, ProjectIDs)
        section == optional(ps.section, SectionIDs)
        ls == labels(ps.label, KnownLabels)
        s1 == IF IsSome(project.value)
              THEN state_filter(trees, [kind |-> "project", arg |-> Unwrap(project.value)])
              ELSE trees
        s2 == IF IsSome(section.value)
              THEN state_filter(s1, [kind |-> "section", arg |-> Unwrap(section.value)])
              ELSE s1
        s3 == IF ls.value # <<>>
              THEN state_filter(s2, [kind |-> "label", arg |-> ls.value])
              ELSE s2
    IN  IF project.err # "none" THEN [err |-> project.err, trees |-> <<>>]
        ELSE IF section.err # "none" THEN [err |-> section.err, trees |-> <<>>]
        ELSE IF ls.err # "none" THEN [err |-> ls.err, trees |-> <<>>]
        ELSE [err |-> "none", trees |-> s3]

NoParams ==
    [expand |-> FALSE, filter |-> {}, project |-> None, section |-> None, label |-> <<>>]

-----------------------------------------------------------------------------
(* Specification SpecTree: the assembly of the forest *)

TreeTasks ==
    {Task(i, par, proj) :
        i \in TaskIDs,
        par \in {None} \cup {Some(p) : p \in TaskIDs},
        proj \in ProjectIDs}

NoTask == Task(Digits(0), None, Digits(0))

InitTree ==
    /\ pc = "fetched"
    /\ \E n \in 0..MaxTasks : items \in [1..n -> TreeTasks]
    /\ tasks = <<>>
    /\ err = "none"
    /\ before = <<>>
    /\ params = NoParams
    /\ left = NoTask
    /\ right = NoTask
    /\ ord = "Equal"
    /\ sibs = <<>>
    /\ sort_by = "None"
    /\ sorted = <<>>
    /\ overflow_checks = FALSE
    /\ GroupIdle
    /\ CompletedIdle
    /\ WriteIdle

\* display_completed_tasks: Tree::from_items(tasks.to_vec())?
FromItems ==
    /\ pc = "fetched"
    /\ LET r == from_items(items) IN
         /\ err' = r.err
         /\ tasks' = r.trees
         /\ pc' = IF r.err = "none" THEN "assembled" ELSE "failed"
    /\ UNCHANGED <<items, before, params, left, right, ord, sibs, sort_by, sorted>>
    /\ UNCHANGED <<writeVars, overflow_checks, groupVars, completedVars>>

NextTree == FromItems

SpecTree == InitTree /\ [][NextTree]_vars

-----------------------------------------------------------------------------
(* Specification SpecFetch: list_action, from the fetch to the filtered state *)

\* list_action: State::fetch_full_tree with --expand, State::fetch_tree
\* without, and the ? on the result. before keeps the whole forest.
FetchTree ==
    /\ pc = "list"
    /\ \E ok \in BOOLEAN :
         IF ~ok
         THEN /\ err' = "unable to get tasks"
              /\ pc' = "failed"
              /\ UNCHANGED <<tasks, before>>
         ELSE LET r == IF params.expand
                       THEN fetch_full_tree(items, params.filter)
                       ELSE fetch_tree(items, params.filter)
              IN  /\ err' = r.err
                  /\ tasks' = r.trees
                  /\ before' = from_items(items).trees
                  /\ pc' = IF r.err = "none" THEN "state" ELSE "failed"
    /\ UNCHANGED <<items, params, left, right, ord, sibs, sort_by, sorted>>
    /\ UNCHANGED <<writeVars, overflow_checks, groupVars, completedVars>>

\* list_action: state = filter_list(state, params).await?
FilterList ==
    /\ pc = "state"
    /\ LET r == filter_list(tasks, params) IN
         /\ err' = r.err
         /\ tasks' = r.trees
         /\ pc' = IF r.err = "none" THEN "filtered" ELSE "failed"
    /\ UNCHANGED <<items, before, params, left, right, ord, sibs, sort_by, sorted>>
    /\ UNCHANGED <<writeVars, overflow_checks, groupVars, completedVars>>

NextFetch == FetchTree \/ FilterList

\* Params: the filter selects every task or task 2 alone; project 0 is a
\* selection that names no project of the state
TreeParams ==
    [expand : BOOLEAN,
     filter : {TaskIDs, {Digits(2)}},
     project : {None} \cup {Some(p) : p \in ProjectIDs \cup {Digits(0)}},
     section : {None} \cup {Some(s) : s \in SectionIDs},
     label : {<<>>}]

\* n Records with the ids 1..n, in ascending or in descending order, each
\* with any parent reference and project
FetchInputs(n) ==
    {[k \in 1..n |-> Task(Digits(IF up THEN k ELSE n + 1 - k), par[k], proj[k])] :
        up \in BOOLEAN,
        par \in [1..n -> {None} \cup {Some(p) : p \in TaskIDs}],
        proj \in [1..n -> ProjectIDs]}

InitFetch ==
    /\ pc = "list"
    /\ \E n \in 0..MaxTasks : items \in FetchInputs(n)
    /\ params \in TreeParams
    /\ tasks = <<>>
    /\ err = "none"
    /\ before = <<>>
    /\ left = NoTask
    /\ right = NoTask
    /\ ord = "Equal"
    /\ sibs = <<>>
    /\ sort_by = "None"
    /\ sorted = <<>>
    /\ overflow_checks = FALSE
    /\ GroupIdle
    /\ CompletedIdle
    /\ WriteIdle

SpecFetch == InitFetch /\ [][NextFetch]_vars

-----------------------------------------------------------------------------
(* Sort engine: list_tasks_with_sort *)

\* Tree::new
Leaf(t) == [item |-> t, subitems |-> <<>>, depth |-> 0]

\* A u32 is held as two 16-bit limbs, value = hi * 2^16 + lo.
Limb == 2 ^ 16

u32(n) == [hi |-> n \div Limb, lo |-> n % Limb]

\* x * k in u32 for a small factor k, wrapping modulo 2^32
wrapping_mul(x, k) ==
    [hi |-> (x.hi * k + (x.lo * k) \div Limb) % Limb, lo |-> (x.lo * k) % Limb]

\* x * k does not fit in u32
mul_overflows(x, k) == x.hi * k + (x.lo * k) \div Limb >= Limb

cmp_u32(x, y) == IF x.hi # y.hi THEN cmp_int(x.hi, y.hi) ELSE cmp_int(x.lo, y.lo)

\* Duration::Structured { amount, unit }
Duration(amount, unit) == [amount |-> amount, unit |-> unit]

\* match dur.unit { Minute => dur.amount, Day => dur.amount * 24 * 60 }, in u32
minutes(dur) ==
    IF dur.unit = "Minute" THEN u32(dur.amount)
    ELSE wrapping_mul(wrapping_mul(u32(dur.amount), 24), 60)

\* dur.amount * 24 * 60 leaves u32: a build with overflow checks panics there
Overflows(dur) ==
    /\ dur.unit = "Day"
    /\ \/ mul_overflows(u32(dur.amount), 24)
       \/ mul_overflows(wrapping_mul(u32(dur.amount), 24), 60)

compare_duration_absent_first(a, b, checks) ==
    IF IsSome(a.item.duration) /\ IsSome(b.item.duration)
    THEN IF checks /\ (Overflows(Unwrap(a.item.duration)) \/ Overflows(Unwrap(b.item.duration)))
         THEN "Panic"
         ELSE cmp_u32(minutes(Unwrap(a.item.duration)), minutes(Unwrap(b.item.duration)))
    ELSE IF IsSome(a.item.duration) THEN "Greater"
    ELSE IF IsSome(b.item.duration) THEN "Less"
    ELSE cmp(a.item, b.item)

\* The closure of SortBy::Duration in list_tasks_with_sort; a and b are Nodes,
\* checks tells whether the build checks integer overflow.
compare_duration(a, b, checks) ==
    IF IsSome(a.item.duration) /\ IsSome(b.item.duration)
    THEN IF checks /\ (Overflows(Unwrap(a.item.duration)) \/ Overflows(Unwrap(b.item.duration)))
         THEN "Panic"
         ELSE cmp_u32(minutes(Unwrap(a.item.duration)), minutes(Unwrap(b.item.duration)))
    ELSE IF IsSome(a.item.duration) THEN "Less"
    ELSE IF IsSome(b.item.duration) THEN "Greater"
    ELSE cmp(a.item, b.item)

\* The closure handed to sort_by for each sort key; a and b are Nodes.
compare_by(key, a, b) ==
    CASE key = "Created" -> cmp_int(a.item.created_at, b.item.created_at)
      [] key = "Duration" -> compare_duration(a, b, overflow_checks)
      [] OTHER -> cmp(a.item, b.item)

\* What a sort or a listing leaves behind: panic tells whether a comparison
\* panicked, v is the slice (for a listing: the rows printed) at that point.
Done(v) == [panic |-> FALSE, v |-> v]

Panicked(v) == [panic |-> TRUE, v |-> v]

RECURSIVE Insert(_, _, _)
\* insertion of the tail x into the sorted run s before it: x moves left past
\* every element it is Less than and stops at the first it is not Less than;
\* a panic of the comparison leaves x where it had got to.
Insert(s, x, key) ==
    IF s = <<>> THEN Done(<<x>>)
    ELSE LET c == compare_by(key, x, s[Len(s)])
             moved == Insert(SubSeq(s, 1, Len(s) - 1), x, key)
         IN  IF c = "Panic" THEN Panicked(s \o <<x>>)
             ELSE IF c = "Less" THEN [moved EXCEPT !.v = @ \o <<s[Len(s)]>>]
             ELSE Done(s \o <<x>>)

RECURSIVE sort(_, _)
\* slice::sort / slice::sort_by: a stable sort, an insertion sort on the
\* short lists of the model; the elements after a panic stay where they are
sort(s, key) ==
    IF s = <<>> THEN Done(<<>>)
    ELSE LET run == sort(SubSeq(s, 1, Len(s) - 1), key)
         IN  IF run.panic THEN Panicked(run.v \o <<s[Len(s)]>>)
             ELSE Insert(run.v, s[Len(s)], key)

RECURSIVE list_tasks_with_sort(_, _)
RECURSIVE PrintEach(_, _)
\* for task in tasks.iter(): the row of the task, then its subitems listed;
\* a panic in the listing of the subitems ends the loop after the rows printed
PrintEach(ts, key) ==
    IF ts = <<>> THEN Done(<<>>)
    ELSE LET sub == list_tasks_with_sort(Head(ts).subitems, key)
             rest == PrintEach(Tail(ts), key)
         IN  IF sub.panic THEN Panicked(<<Head(ts)>> \o sub.v)
             ELSE [rest EXCEPT !.v = <<Head(ts)>> \o sub.v \o @]

\* The Nodes in the order their rows are printed; the sibling list is sorted
\* before its first row is printed, so a panic of the sort prints none of it.
list_tasks_with_sort(trees, key) ==
    LET tasks_sorted == sort(trees, key)
    IN  IF tasks_sorted.panic THEN Panicked(<<>>) ELSE PrintEach(tasks_sorted.v, key)

-----------------------------------------------------------------------------
(* Sort inside a bucket of the grouped listing: apply_sort *)

apply_compare_by_default(key, a, b) == cmp(a.item, b.item)

\* The closure apply_sort hands to sort_by for each sort key.
apply_compare_by(key, a, b) ==
    CASE key = "Created" -> cmp_int(a.item.created_at, b.item.created_at)
      [] key = "Duration" ->
            IF IsSome(a.item.duration) /\ IsSome(b.item.duration)
            THEN IF overflow_checks /\ (\/ Overflows(Unwrap(a.item.duration))
                                        \/ Overflows(Unwrap(b.item.duration)))
                 THEN "Panic"
                 ELSE cmp_u32(minutes(Unwrap(a.item.duration)), minutes(Unwrap(b.item.duration)))
            ELSE IF IsSome(a.item.duration) THEN "Less"
            ELSE IF IsSome(b.item.duration) THEN "Greater"
            ELSE cmp(a.item, b.item)
      [] OTHER -> cmp(a.item, b.item)

RECURSIVE ApplyInsert(_, _, _)
ApplyInsert(s, x, key) ==
    IF s = <<>> THEN Done(<<x>>)
    ELSE LET c == apply_compare_by(key, x, s[Len(s)])
             moved == ApplyInsert(SubSeq(s, 1, Len(s) - 1), x, key)
         IN  IF c = "Panic" THEN Panicked(s \o <<x>>)
             ELSE IF c = "Less" THEN [moved EXCEPT !.v = @ \o <<s[Len(s)]>>]
             ELSE Done(s \o <<x>>)

RECURSIVE apply_sort(_, _)
\* tasks.sort_by(..) on the Vec<&Tree<Task>> of a bucket: a stable sort
apply_sort(s, key) ==
    IF s = <<>> THEN Done(<<>>)
    ELSE LET run == apply_sort(SubSeq(s, 1, Len(s) - 1), key)
         IN  IF run.panic THEN Panicked(run.v \o <<s[Len(s)]>>)
             ELSE ApplyInsert(run.v, s[Len(s)], key)

-----------------------------------------------------------------------------
(* The grouped listing: list_tasks_grouped_by_project *)

RECURSIVE collect_tasks(_)
\* The Nodes in the order collect_tasks pushes them: each task, then its
\* subitems, recursively.
collect_tasks(ts) ==
    IF ts = <<>> THEN <<>>
    ELSE <<Head(ts)>> \o collect_tasks(Head(ts).subitems) \o collect_tasks(Tail(ts))

\* project_groups: groups.entry(task.project_id).or_default().push(task)
project_groups(ts) ==
    [p \in {n.item.project_id : n \in Range(collect_tasks(ts))} |->
        SelectSeq(collect_tasks(ts), LAMBDA n : n.item.project_id = p)]

project_name_raw(table, pid) == pid

\* state.projects.get(&id).map(|p| &p.name).unwrap_or(&id)
project_name(table, pid) == IF pid \in DOMAIN table THEN table[pid] ELSE pid

RECURSIVE InsertProject(_, _, _)
InsertProject(s, x, table) ==
    IF s = <<>> THEN <<x>>
    ELSE IF cmp_str(project_name(table, x), project_name(table, Head(s))) = "Less"
         THEN <<x>> \o s
    ELSE <<Head(s)>> \o InsertProject(Tail(s), x, table)

RECURSIVE sorted_projects(_, _)
\* sorted_projects.sort_by(name): a stable sort of the keys in the order the
\* hash map yields them
sorted_projects(hash_order, table) ==
    IF hash_order = <<>> THEN <<>>
    ELSE InsertProject(sorted_projects(SubSeq(hash_order, 1, Len(hash_order) - 1), table),
                       hash_order[Len(hash_order)], table)

RECURSIVE count_all_subtasks(_)
RECURSIVE SumSubtasks(_)
SumSubtasks(ts) ==
    IF ts = <<>> THEN 0 ELSE 1 + count_all_subtasks(Head(ts)) + SumSubtasks(Tail(ts))

count_all_subtasks(task) == SumSubtasks(task.subitems)

count_all_tasks(ts) == SumSubtasks(ts)

\* One bucket as it is printed: the header, then the rows; the header is
\* printed before apply_sort, so a panic of the sort leaves a header alone.
Bucket(groups, table, key, pid) ==
    LET project_tasks == apply_sort(groups[pid], key)
    IN  [project_id |-> pid,
         name |-> project_name(table, pid),
         visible |-> Len(groups[pid]),
         total |-> count_all_tasks(groups[pid]),
         rows |-> IF project_tasks.panic THEN <<>> ELSE project_tasks.v]

RECURSIVE PrintBuckets(_, _, _, _)
\* for (project_id, project_tasks) in sorted_projects: the loop ends at the
\* bucket whose sort panics
PrintBuckets(order, groups, table, key) ==
    IF order = <<>> THEN Done(<<>>)
    ELSE LET rest == PrintBuckets(Tail(order), groups, table, key)
         IN  IF apply_sort(groups[Head(order)], key).panic
             THEN Panicked(<<Bucket(groups, table, key, Head(order))>>)
             ELSE [rest EXCEPT !.v = <<Bucket(groups, table, key, Head(order))>> \o @]

\* The buckets in print order; hash_order is the order in which
\* project_groups.into_iter() yields the keys.
list_tasks_grouped_by_project(ts, table, key, hash_order) ==
    PrintBuckets(sorted_projects(hash_order, table), project_groups(ts), table, key)

\* The orders in which a hash map holding these keys can yield them.
HashOrders(keys) ==
    {h \in [1..Cardinality(keys) -> keys] : \A i, j \in DOMAIN h : i # j => h[i] # h[j]}

-----------------------------------------------------------------------------
(* Reading a forest *)

RECURSIVE Walk(_, _, _)
\* Every Node of the forest in pre-order, with the Node that holds it as a
\* child (None for a root) and the depth of that holder (-1 for a root).
Walk(trees, holder, hdepth) ==
    IF trees = <<>> THEN <<>>
    ELSE LET t == Head(trees) IN
         <<[node |-> t, holder |-> holder, hdepth |-> hdepth]>>
         \o Walk(t.subitems, Some(t.item.id), t.depth)
         \o Walk(Tail(trees), holder, hdepth)

Nodes(trees) == Walk(trees, None, -1)

\* The ids of a sequence of Nodes, in order.
IdsOf(trees) == [i \in 1..Len(trees) |-> trees[i].item.id]

\* The entries of the walk that hold the Record with this id.
Places(w, i) == {k \in 1..Len(w) : w[k].node.item.id = i}

\* Same Record, the parent reference aside.
SamePayload(a, b) == [a EXCEPT !.parent_id = None] = [b EXCEPT !.parent_id = None]

\* s is t with some elements left out, the others in the same order.
RECURSIVE IsSubseq(_, _)
IsSubseq(s, t) ==
    IF s = <<>> THEN TRUE
    ELSE IF t = <<>> THEN FALSE
    ELSE IF Head(s) = Head(t) THEN IsSubseq(Tail(s), Tail(t))
    ELSE IsSubseq(s, Tail(t))

\* The input Record with this id lies on a cycle of parent references.
RECURSIVE Reaches(_, _, _, _)
Reaches(its, from, to, n) ==
    \E k \in 1..Len(its) :
        /\ its[k].id = from
        /\ its[k].parent_id # None
        /\ \/ its[k].parent_id[1] = to
           \/ n > 0 /\ Reaches(its, its[k].parent_id[1], to, n - 1)

OnCycle(its, i) == Reaches(its, i, i, Len(its))

DistinctIds(its) == \A i, j \in 1..Len(its) : i # j => its[i].id # its[j].id

Assembled == pc = "assembled"

-----------------------------------------------------------------------------
(* Claims about assembly *)

\* C1 (completeness): when the ids of the input are pairwise distinct, the
\* Nodes of the assembled forest, roots and all descendants, hold every input
\* Record exactly once and nothing else: as many Nodes as Records, and each
\* input Record in exactly one Node, with its payload.
C1_Completeness ==
    (pc = "assembled") =>
        LET w == Nodes(tasks) IN
        /\ Len(w) = Len(items)
        /\ \A k \in 1..Len(items) :
              /\ Cardinality(Places(w, items[k].id)) = 1
              /\ \A q \in Places(w, items[k].id) : SamePayload(w[q].node.item, items[k])

\* C1 witness: an assembled input of three Records that has a cycle, a
\* dangling reference and a resolvable child.
C1_Witness ==
    /\ pc = "assembled"
    /\ Len(items) = MaxTasks
    /\ \E k \in 1..Len(items) : OnCycle(items, items[k].id)
    /\ \E k \in 1..Len(items) :
          items[k].parent_id # None /\ ~OnCycle(items, items[k].id)

\* C2 (cycle safety): when Records of the input form a cycle of parent
\* references (a self-parent included) and the ids are distinct, assembly
\* succeeds and each Record of the cycle is a root of the forest, once, with
\* no parent reference left.
C2_CycleSafety ==
    (pc # "fetched" /\ DistinctIds(items)) =>
        /\ err = "none"
        /\ pc # "failed"
        /\ (pc = "assembled") =>
              \A k \in 1..Len(items) :
                  OnCycle(items, items[k].id) =>
                      /\ Cardinality({r \in 1..Len(tasks) : tasks[r].item.id = items[k].id}) = 1
                      /\ Cardinality(Places(Nodes(tasks), items[k].id)) = 1
                      /\ \A r \in 1..Len(tasks) :
                            tasks[r].item.id = items[k].id =>
                                /\ tasks[r].item.parent_id = None
                                /\ tasks[r].depth = 0

\* C2 witness: a 3-cycle has been assembled.
C2_Witness ==
    /\ pc = "assembled"
    /\ Len(items) = 3
    /\ \A k \in 1..3 : OnCycle(items, items[k].id)
    /\ \A k \in 1..3 : items[k].parent_id # Some(items[k].id)
    /\ Len(tasks) = 3

\* C3 (parent resolution): after assembly a Record whose parent_id is the id
\* of another Record of the input, and which is not on a cycle, is held as a
\* direct child by exactly that Record's Node; a Record whose parent_id is
\* absent or names no Record of the input is a root.
C3_ParentResolution ==
    (pc = "assembled") =>
        LET w == Nodes(tasks) IN
        \A k \in 1..Len(items) :
            LET r == items[k] IN
            /\ Places(w, r.id) # {}
            /\ \A q \in Places(w, r.id) :
                IF r.parent_id = None \/ r.parent_id[1] \notin Index(items)
                THEN w[q].holder = None
                ELSE ~OnCycle(items, r.id) => w[q].holder = r.parent_id

\* C3 witness: an assembled input with a resolved child and a dangling one.
C3_Witness ==
    /\ pc = "assembled"
    /\ \E k \in 1..Len(items) :
          /\ items[k].parent_id # None
          /\ items[k].parent_id[1] \notin Index(items)
    /\ \E q \in 1..Len(Nodes(tasks)) : Nodes(tasks)[q].holder # None

\* C4 (depth invariant): in the forest of the fetched state, which is the
\* assembled forest when every task is in the filter, and in every forest got
\* from it by filtering, a root has depth 0 and every other Node has the depth of
\* the Node that holds it plus 1.
C4_DepthInvariant ==
    (pc \in {"state", "filtered"}) =>
        LET w == Nodes(tasks) IN
        \A q \in 1..Len(w) : w[q].node.depth = w[q].hdepth + 1

\* C4 witness: a filtered forest that still has a Node at depth 2.
C4_Witness ==
    /\ pc = "filtered"
    /\ \E q \in 1..Len(Nodes(tasks)) : Nodes(tasks)[q].node.depth = 2

\* C5 (duplicate ids are the only failure): assembly fails, with DuplicateID
\* and without a forest, exactly when two Records of the input share an id.
C5_DuplicateOnly ==
    (pc # "fetched") =>
        /\ (err = "DuplicateID") <=> ~DistinctIds(items)
        /\ (pc = "failed") <=> ~DistinctIds(items)
        /\ err \in {"none", "DuplicateID"}
        /\ (pc = "failed") => tasks = <<>>
        /\ (pc = "failed") <=> (err # "none")

\* C5 witness: an input with a duplicate id and a cycle-free rest has failed.
C5_Witness ==
    /\ pc = "failed"
    /\ err = "DuplicateID"
    /\ Len(items) = 3
    /\ Cardinality(Index(items)) = 2

-----------------------------------------------------------------------------
(* Claims about filtering *)

\* The ids of all Nodes of a walk.
WalkIds(w) == {w[q].node.item.id : q \in 1..Len(w)}

\* The walk entry of the Node with this id.
At(w, i) == w[CHOOSE q \in 1..Len(w) : w[q].node.item.id = i]

RECURSIVE SelfAndAncestors(_, _)
\* The id and the ids of all Nodes above it in the forest that was walked.
SelfAndAncestors(w, i) ==
    {i} \cup (IF At(w, i).holder = None THEN {}
              ELSE SelfAndAncestors(w, At(w, i).holder[1]))

SelfAndDescendants(w, i) == {j \in WalkIds(w) : i \in SelfAndAncestors(w, j)}

\* The Record is in the filter and satisfies the selections of the command
\* (labels not selected).
Sat(ps, item) ==
    /\ item.id \in ps.filter
    /\ ps.project # None => item.project_id = ps.project[1]
    /\ ps.section # None => item.section_id = ps.section

\* A Node that is kept stays under the Node that held it.
SameHolders(wb, wa) ==
    \A i \in WalkIds(wa) : i \in WalkIds(wb) /\ At(wa, i).holder = At(wb, i).holder

\* C6 (strict filter): with expand = false a Node of the forest is in the
\* filtered forest if and only if its own Record and the Record of each of
\* its ancestors satisfy the predicate: they are in the filter and in the
\* selected project and section.
C6_StrictFilter ==
    (pc = "filtered" /\ ~params.expand /\ params.label = <<>>) =>
        LET wb == Nodes(before)
            wa == Nodes(tasks)
        IN /\ SameHolders(wb, wa)
           /\ \A i \in WalkIds(wb) :
                 (i \in WalkIds(wa)) <=>
                     \A a \in SelfAndAncestors(wb, i) : Sat(params, At(wb, a).node.item)

\* C6 witness: strict filtering of a forest in which a parent fails the
\* predicate and its child passes it, with an empty result.
C6_Witness ==
    /\ pc = "filtered" /\ ~params.expand
    /\ params.project # None /\ params.section = None
    /\ before # <<>>
    /\ tasks = <<>>
    /\ \E q \in 1..Len(Nodes(before)) :
          LET e == Nodes(before)[q] IN
          /\ e.holder # None
          /\ Sat(params, e.node.item)
          /\ ~Sat(params, At(Nodes(before), e.holder[1]).node.item)

\* C7 (expanding filter): with expand = true a Node of the forest is in the
\* forest of the state if and only if its own Record or the Record of one of
\* its descendants is in the filter, and it stays under the same parent; so
\* it is in the listing when no project, section or label is selected.
C7_ExpandingFilter ==
    (/\ params.expand
     /\ \/ pc = "state"
        \/ pc = "filtered" /\ params.project = None /\ params.section = None
                           /\ params.label = <<>>) =>
        LET wb == Nodes(before)
            wa == Nodes(tasks)
        IN /\ SameHolders(wb, wa)
           /\ \A i \in WalkIds(wb) :
                 (i \in WalkIds(wa)) <=>
                     \E d \in SelfAndDescendants(wb, i) : d \in params.filter

\* C7 witness: the listing with --expand and no selection kept a parent that
\* is not in the filter with its child, which is, under it, and dropped
\* another Node.
C7_Witness ==
    /\ pc = "filtered" /\ params.expand
    /\ params.project = None /\ params.section = None
    /\ Len(Nodes(tasks)) < Len(Nodes(before))
    /\ \E q \in 1..Len(Nodes(tasks)) :
          LET e == Nodes(tasks)[q] IN
          /\ e.holder # None
          /\ e.node.item.id \in params.filter
          /\ e.holder[1] \notin params.filter

\* C8 (filtering preserves order): in both modes the roots that survive are
\* in the order they had before filtering, and so are the surviving children
\* of every surviving Node.
C8_OrderPreserved ==
    (pc = "filtered") =>
        LET wb == Nodes(before)
            wa == Nodes(tasks)
        IN /\ IsSubseq(IdsOf(tasks), IdsOf(before))
           /\ \A q \in 1..Len(wa) :
                 LET n == wa[q].node IN
                 /\ n.item.id \in WalkIds(wb)
                 /\ IsSubseq(IdsOf(n.subitems), IdsOf(At(wb, n.item.id).node.subitems))

\* C8 witness: of three roots the middle one was dropped and the two others
\* survived.
C8_Witness ==
    /\ pc = "filtered"
    /\ Len(before) = 3
    /\ Len(tasks) = 2
    /\ IdsOf(tasks) = <<before[1].item.id, before[3].item.id>>

-----------------------------------------------------------------------------
(* Specification SpecCmp: Task::cmp on a pair of Tasks *)

DueTimes == {0, 60}

DueDates ==
    {None}
    \cup {Some(DueDate(DateOnly(d))) : d \in 1..MaxDay}
    \cup {Some(DueDate(Floating(d, t))) : d \in 1..MaxDay, t \in DueTimes}
    \cup {Some(DueDate(Zoned(d, t, o))) : d \in 1..MaxDay, t \in DueTimes, o \in {0, 60}}

\* ids whose order as strings differs from their order as numbers
CmpIDs == {Digits(1), Digits(2), Digits(10)}

CmpTasks ==
    {[Task(i, None, Digits(1)) EXCEPT !.priority = p, !.order = o, !.due = d] :
        i \in CmpIDs, p \in Normal..Urgent, o \in 1..MaxOrder, d \in DueDates}

InitCmp ==
    /\ pc = "pair"
    /\ left \in CmpTasks
    /\ right \in CmpTasks
    /\ ord = "Equal"
    /\ items = <<>>
    /\ tasks = <<>>
    /\ err = "none"
    /\ before = <<>>
    /\ params = NoParams
    /\ sibs = <<>>
    /\ sort_by = "None"
    /\ sorted = <<>>
    /\ overflow_checks = FALSE
    /\ GroupIdle
    /\ CompletedIdle
    /\ WriteIdle

\* left.cmp(&right)
Compare ==
    /\ pc = "pair"
    /\ ord' = cmp(left, right)
    /\ pc' = "compared"
    /\ UNCHANGED <<items, tasks, err, before, params, left, right, sibs, sort_by, sorted>>
    /\ UNCHANGED <<writeVars, overflow_checks, groupVars, completedVars>>

NextCmp == Compare

SpecCmp == InitCmp /\ [][NextCmp]_vars

\* The keys of the Default comparison, in the order of their precedence: no
\* exact due timestamp after any, the timestamp, urgency downward, the order.
DefaultKey(t) ==
    LET e == due_exact(t) IN
    <<IF e = None THEN 1 ELSE 0,
      IF e = None THEN 0 ELSE e[1],
      Urgent - t.priority,
      t.order>>

\* The first key on which the two differ decides; the id, as a string, last.
LexLess(a, b) ==
    LET ka == DefaultKey(a)
        kb == DefaultKey(b)
    IN \/ \E n \in 1..Len(ka) :
             /\ ka[n] < kb[n]
             /\ \A m \in 1..(n - 1) : ka[m] = kb[m]
       \/ ka = kb /\ cmp_str(a.id, b.id) = "Less"

LexOrdering(a, b) ==
    IF LexLess(a, b) THEN "Less" ELSE IF LexLess(b, a) THEN "Greater" ELSE "Equal"

\* C9 (Default comparator precedence): the Default comparison of two Records
\* is the lexicographic comparison on (1) the exact due timestamp, ascending,
\* a Record with one before a Record without, (2) the priority, Urgent first,
\* (3) the order field ascending, (4) the id ascending; so an exact-due
\* Record precedes an Urgent Record with no due date.
C9_DefaultPrecedence ==
    (pc = "compared") =>
        /\ ord = LexOrdering(left, right)
        /\ (due_exact(left) # None /\ right.due = None) => ord = "Less"

\* C9 witness: a Normal Record with an exact due timestamp was compared with
\* an Urgent Record without a due date.
C9_Witness ==
    /\ pc = "compared"
    /\ left.due # None /\ due_exact(left) # None /\ left.priority = Normal
    /\ right.due = None /\ right.priority = Urgent
    /\ ord = "Less"

\* The due value of the Record carries a date and a time of day, with or
\* without a timezone designator.
HasTime(t) == t.due # None /\ t.due[1].date.time # None

\* C23 (a due with a date and a time is exact): a Record whose due carries a
\* date and a time of day, zoned or not, is before every Record whose due is
\* date-only or absent, whatever the priorities.
C23_DateAndTimeIsExact ==
    (pc = "compared" /\ HasTime(left) /\ ~HasTime(right)) => ord = "Less"

-----------------------------------------------------------------------------
(* Specification SpecSort: one sibling list printed with the Default key *)

SortIDs == {Digits(n) : n \in 2..MaxSibs} \cup {Digits(10)}

\* no due date, or an exact one

\* every priority, order and due of these, but an exact due only with order 1
SortTasks ==
    {t \in {[Task(i, None, Digits(1)) EXCEPT !.priority = p, !.order = o, !.due = d] :
                i \in SortIDs, p \in {Normal, Urgent}, o \in {1, 2}, d \in {None, Some(DueDate(Zoned(1, 0, 0)))}} :
        t.due # None => t.order = 1}

InitSort ==
    /\ pc = "state"
    /\ \E n \in 0..MaxSibs : sibs \in [1..n -> {Leaf(t) : t \in SortTasks}]
    /\ \A i, j \in 1..Len(sibs) : i # j => sibs[i].item.id # sibs[j].item.id
    /\ sort_by = "None"
    /\ sorted = <<>>
    /\ left = NoTask
    /\ right = NoTask
    /\ ord = "Equal"
    /\ items = <<>>
    /\ tasks = <<>>
    /\ err = "none"
    /\ before = <<>>
    /\ params = NoParams
    /\ overflow_checks \in BOOLEAN
    /\ GroupIdle
    /\ CompletedIdle
    /\ WriteIdle

ListTasksWithSort_in_place ==
    /\ pc = "state"
    /\ sibs' = sort(sibs, sort_by).v
    /\ sorted' = list_tasks_with_sort(sibs, sort_by).v
    /\ pc' = IF list_tasks_with_sort(sibs, sort_by).panic THEN "panicked" ELSE "listed"
    /\ UNCHANGED <<items, tasks, err, before, params, left, right, ord, sort_by>>
    /\ UNCHANGED <<writeVars, overflow_checks, groupVars, completedVars>>

\* list_action: list_tasks_with_sort(&state.tasks, &state, params.sort_by);
\* sorted takes the rows printed, up to the panic when a comparison panics
ListTasksWithSort ==
    /\ pc = "state"
    /\ sorted' = list_tasks_with_sort(sibs, sort_by).v
    /\ pc' = IF list_tasks_with_sort(sibs, sort_by).panic THEN "panicked" ELSE "listed"
    /\ UNCHANGED <<items, tasks, err, before, params, left, right, ord, sibs, sort_by>>
    /\ UNCHANGED <<writeVars, overflow_checks, groupVars, completedVars>>

NextSort == ListTasksWithSort

SpecSort == InitSort /\ [][NextSort]_vars

\* The list s in the order given by the permutation f of its indices.
Permuted(s, f) == [i \in 1..Len(s) |-> s[f[i]]]

\* C10 (Default sort determinism): on Records with pairwise distinct ids the
\* Default comparison is a strict total order (antisymmetric, never Equal for
\* two distinct Records, transitive); the printed order of a sibling list is
\* ascending in it and the same for every permutation of the list; Records
\* with equal priority, equal order and no due date are in ascending id order.
C10_DefaultSortDeterminism ==
    LET n == Len(sibs) IN
    /\ \A i, j \in 1..n :
          /\ cmp(sibs[i].item, sibs[j].item) = reverse(cmp(sibs[j].item, sibs[i].item))
          /\ (cmp(sibs[i].item, sibs[j].item) = "Equal") <=> (i = j)
    /\ \A i, j, k \in 1..n :
          (cmp(sibs[i].item, sibs[j].item) = "Less" /\ cmp(sibs[j].item, sibs[k].item) = "Less")
              => cmp(sibs[i].item, sibs[k].item) = "Less"
    /\ (pc = "listed") =>
          /\ Len(sorted) = n
          /\ Range(sorted) = Range(sibs)
          /\ \A i, j \in 1..n : i < j => cmp(sorted[i].item, sorted[j].item) = "Less"
          /\ \A f \in Permutations(1..n) :
                list_tasks_with_sort(Permuted(sibs, f), sort_by) = Done(sorted)
          /\ \A i, j \in 1..n :
                (/\ i < j
                 /\ sorted[i].item.due = None /\ sorted[j].item.due = None
                 /\ sorted[i].item.priority = sorted[j].item.priority
                 /\ sorted[i].item.order = sorted[j].item.order)
                    => cmp_str(sorted[i].item.id, sorted[j].item.id) = "Less"

\* C10 witness: three Records with equal priority, equal order and no due
\* date, supplied in descending id order, were printed in ascending id order.
C10_Witness ==
    /\ pc = "listed"
    /\ Len(sibs) = 3
    /\ \A i \in 1..3 : sibs[i].item.due = None
    /\ \A i, j \in 1..3 :
          /\ sibs[i].item.priority = sibs[j].item.priority
          /\ sibs[i].item.order = sibs[j].item.order
    /\ \A i, j \in 1..3 : i < j => cmp_str(sibs[i].item.id, sibs[j].item.id) = "Greater"
    /\ sorted = <<sibs[3], sibs[2], sibs[1]>>

-----------------------------------------------------------------------------
(* Specification SpecDur: the Duration comparison on a pair of Tasks *)

\* amounts of a duration; 2982617 days are the first to leave u32
DurAmounts == {1, 2, 100, 1440, 2880, 2982616, 2982617, 2147483647}

Durations ==
    {None} \cup {Some(Duration(n, u)) : n \in DurAmounts, u \in {"Minute", "Day"}}

DurTasks ==
    {[Task(i, None, Digits(1)) EXCEPT !.priority = p, !.due = d, !.duration = dur] :
        i \in {Digits(1), Digits(2)}, p \in {Normal, Urgent},
        d \in {None, Some(DueDate(Zoned(1, 0, 0)))}, dur \in Durations}

InitDur ==
    /\ pc = "pair"
    /\ left \in DurTasks
    /\ right \in DurTasks
    /\ overflow_checks \in BOOLEAN
    /\ ord = "Equal"
    /\ items = <<>>
    /\ tasks = <<>>
    /\ err = "none"
    /\ before = <<>>
    /\ params = NoParams
    /\ sibs = <<>>
    /\ sort_by = "Duration"
    /\ sorted = <<>>
    /\ GroupIdle
    /\ CompletedIdle
    /\ WriteIdle

\* one call of the closure of SortBy::Duration
CompareDuration ==
    /\ pc = "pair"
    /\ ord' = compare_duration(Leaf(left), Leaf(right), overflow_checks)
    /\ pc' = "compared"
    /\ UNCHANGED <<items, tasks, err, before, params, left, right, sibs, sort_by, sorted>>
    /\ UNCHANGED <<writeVars, overflow_checks, groupVars, completedVars>>

NextDur == CompareDuration

SpecDur == InitDur /\ [][NextDur]_vars

\* Order of two durations by their minutes, a day being 1440 minutes; a day
\* amount d is set against a minute amount m through m \div 1440 and m % 1440.
DayAgainstMinute(d, m) ==
    IF d > m \div 1440 THEN "Greater"
    ELSE IF d = m \div 1440 /\ m % 1440 = 0 THEN "Equal"
    ELSE "Less"

ByTrueMinutes(l, r) ==
    IF l.unit = r.unit THEN cmp_int(l.amount, r.amount)
    ELSE IF l.unit = "Day" THEN DayAgainstMinute(l.amount, r.amount)
    ELSE reverse(DayAgainstMinute(r.amount, l.amount))

\* C12 (duration normalization): two Records that both have a duration are
\* ordered by their durations in minutes, a day counting 1440 minutes; so
\* 100 minute is before 2 day.
C12_DurationNormalization ==
    (pc = "compared" /\ left.duration # None /\ right.duration # None) =>
        ord = ByTrueMinutes(left.duration[1], right.duration[1])

\* C13 (duration presence): a Record with a duration is before every Record
\* without one, whatever their due dates and priorities; two Records without
\* a duration compare as the Default comparison compares them.
C13_DurationPresence ==
    (pc = "compared") =>
        /\ (left.duration # None /\ right.duration = None) => ord = "Less"
        /\ (left.duration = None /\ right.duration # None) => ord = "Greater"
        /\ (left.duration = None /\ right.duration = None) => ord = cmp(left, right)

\* C13 witness: a Normal Record with a duration and no due date was compared
\* with an Urgent Record with an exact due date and no duration.
C13_Witness ==
    /\ pc = "compared"
    /\ left.duration # None /\ left.priority = Normal /\ left.due = None
    /\ right.duration = None /\ right.priority = Urgent /\ right.due # None
    /\ ord = "Less"

\* C25 (no overflow in the duration comparison): for every pair of amounts
\* and units the comparison completes without a panic, no product amount * 24
\* * 60 leaves u32, and the two Records are ordered by their minutes.
C25_NoOverflow ==
    (pc = "compared") =>
        /\ ord # "Panic"
        /\ (left.duration # None /\ right.duration # None) =>
              /\ ~Overflows(left.duration[1])
              /\ ~Overflows(right.duration[1])
              /\ ord = ByTrueMinutes(left.duration[1], right.duration[1])

-----------------------------------------------------------------------------
(* Specification SpecKeys: one sibling list sorted with each sort key *)

SortKeys == {"None", "Created", "Duration"}

\* the smallest amount of days whose minutes leave u32
OverflowDays == 2982617

KeyTasks ==
    {[Task(i, None, Digits(1)) EXCEPT !.created_at = c, !.duration = dur] :
        i \in SortIDs, c \in {1, 2},
        dur \in {None, Some(Duration(1, "Day")), Some(Duration(1440, "Minute"))}}
    \cup {[Task(i, None, Digits(1)) EXCEPT !.created_at = 1,
                                          !.duration = Some(Duration(OverflowDays, "Day"))] :
             i \in SortIDs}

InitKeys ==
    /\ pc = "state"
    /\ \E n \in 0..MaxSibs : sibs \in [1..n -> {Leaf(t) : t \in KeyTasks}]
    /\ \A i, j \in 1..Len(sibs) : i # j => sibs[i].item.id # sibs[j].item.id
    /\ sort_by \in SortKeys
    /\ sorted = <<>>
    /\ overflow_checks \in BOOLEAN
    /\ left = NoTask
    /\ right = NoTask
    /\ ord = "Equal"
    /\ items = <<>>
    /\ tasks = <<>>
    /\ err = "none"
    /\ before = <<>>
    /\ params = NoParams
    /\ GroupIdle
    /\ CompletedIdle
    /\ WriteIdle

\* apply_sort(&mut project_tasks, sort_by) on the same Nodes
ApplySort ==
    /\ pc \in {"listed", "panicked"}
    /\ printed' = apply_sort(sibs, sort_by).v
    /\ pc' = IF apply_sort(sibs, sort_by).panic THEN "apply_panicked" ELSE "applied"
    /\ UNCHANGED <<items, tasks, err, before, params, left, right, ord, sibs, sort_by, sorted>>
    /\ UNCHANGED <<writeVars, overflow_checks, projects, completedVars>>

NextKeys == ListTasksWithSort \/ ApplySort

SpecKeys == InitKeys /\ [][NextKeys]_vars

\* C11 (CreatedAt sort): with the Created key a sibling list is printed oldest
\* first, and Records created at the same time in ascending id order.
C11_CreatedSort ==
    (pc = "listed" /\ sort_by = "Created") =>
        \A i, j \in 1..Len(sorted) :
            i < j =>
                \/ sorted[i].item.created_at < sorted[j].item.created_at
                \/ /\ sorted[i].item.created_at = sorted[j].item.created_at
                   /\ cmp_str(sorted[i].item.id, sorted[j].item.id) = "Less"

\* C18 (same comparator inside buckets): for every sort key and every list of
\* tasks, apply_sort orders the tasks as list_tasks_with_sort orders them as
\* one sibling list; and a comparison panics in the one exactly when it
\* panics in the other.
C18_SameComparator ==
    /\ (pc = "applied") => Done(printed) = list_tasks_with_sort(sibs, sort_by)
    /\ (pc = "apply_panicked") => list_tasks_with_sort(sibs, sort_by).panic

\* C18 witness: with the Duration key a list of three Nodes came out of both
\* in an order that is not the order supplied.
C18_Witness ==
    /\ pc = "applied"
    /\ sort_by = "Duration"
    /\ Len(sibs) = 3
    /\ printed # sibs
    /\ printed = sorted

\* C26 (Duration sort is independent of input order): with the Duration key
\* every permutation of a sibling list is printed in the same order, also
\* when two Records have the same duration in minutes.
C26_DurationOrderIndependent ==
    (pc = "listed" /\ sort_by = "Duration") =>
        \A f \in Permutations(1..Len(sibs)) :
            list_tasks_with_sort(Permuted(sibs, f), sort_by) = Done(sorted)

-----------------------------------------------------------------------------
(* Specification SpecList: the ungrouped and the grouped listing of a forest *)
(* of up to three Records, supplied in ascending or in descending id order   *)

ListIDs == {Digits(1), Digits(2), Digits(3)}

\* created_at and duration of an input task
ListProfiles ==
    {[created_at |-> 1, duration |-> None],
     [created_at |-> 2, duration |-> Some(Duration(1, "Day"))],
     [created_at |-> 2, duration |-> Some(Duration(OverflowDays, "Day"))]}

ListTasks ==
    UNION {{[Task(i, par, proj) EXCEPT !.created_at = f.created_at, !.duration = f.duration] :
               par \in {None} \cup {Some(j) : j \in ListIDs \ {i}},
               proj \in ProjectIDs, f \in ListProfiles} : i \in ListIDs}

\* display names of known projects
ProjectNames == {Digits(2), Digits(3)}

\* state.projects: the known projects and their names
ProjectTables ==
    {t \in UNION {[D -> ProjectNames] : D \in SUBSET ProjectIDs} :
        Digits(2) \in DOMAIN t => t[Digits(2)] = Digits(2)}

InitList ==
    /\ pc = "state"
    /\ \E n \in 0..Cardinality(ListIDs) : items \in [1..n -> ListTasks]
    /\ \/ \A i, j \in 1..Len(items) : i < j => cmp_str(items[i].id, items[j].id) = "Less"
       \/ \A i, j \in 1..Len(items) : i < j => cmp_str(items[i].id, items[j].id) = "Greater"
    /\ tasks = from_items(items).trees
    /\ sibs = tasks
    /\ sort_by \in SortKeys
    /\ projects \in ProjectTables
    /\ printed = <<>>
    /\ sorted = <<>>
    /\ overflow_checks \in BOOLEAN
    /\ left = NoTask
    /\ right = NoTask
    /\ ord = "Equal"
    /\ err = "none"
    /\ before = <<>>
    /\ params = NoParams
    /\ CompletedIdle
    /\ WriteIdle

ListTasksGroupedByProject ==
    /\ pc = "state"
    /\ \E h \in HashOrders(DOMAIN project_groups(sibs)) :
          /\ printed' = list_tasks_grouped_by_project(sibs, projects, sort_by, h).v
          /\ pc' = IF list_tasks_grouped_by_project(sibs, projects, sort_by, h).panic
                   THEN "group_panicked" ELSE "grouped"
    /\ UNCHANGED <<items, tasks, err, before, params, left, right, ord, sibs, sort_by, sorted>>
    /\ UNCHANGED <<writeVars, overflow_checks, projects, completedVars>>

NextList == ListTasksWithSort \/ ListTasksGroupedByProject

SpecList == InitList /\ [][NextList]_vars

\* C14 (hierarchy-preserving sorted listing): the ungrouped listing prints
\* every Node of the forest exactly once; the rows after a Node's row are those
\* of all its descendants, before any other row; no Node is printed before its
\* parent; and Nodes of one sibling list (the roots, or the children of one
\* Node) are printed in the order of the sort key; this for every sort key
\* and every forest, whether the listing ran to its end or ended in a panic.
C14_HierarchyPreserved ==
    (pc \in {"listed", "panicked"}) =>
        LET w == Nodes(sibs) IN
        /\ Len(sorted) = Len(w)
        /\ \A q \in 1..Len(w) :
              Cardinality({k \in 1..Len(sorted) : sorted[k] = w[q].node}) = 1
        /\ \A k \in 1..Len(sorted) :
              LET under == SelfAndDescendants(w, sorted[k].item.id) IN
              /\ k + Cardinality(under) - 1 <= Len(sorted)
              /\ \A j \in k..(k + Cardinality(under) - 1) : sorted[j].item.id \in under
              /\ At(w, sorted[k].item.id).holder # None =>
                    \E j \in 1..(k - 1) : Some(sorted[j].item.id) = At(w, sorted[k].item.id).holder
        /\ \A j, k \in 1..Len(sorted) :
              (j < k /\ At(w, sorted[j].item.id).holder = At(w, sorted[k].item.id).holder) =>
                  compare_by(sort_by, sorted[k], sorted[j]) # "Less"

\* The ids of the members of a bucket and of all their descendants.
BucketTasks(b) == UNION {SelfAndDescendants(Nodes(sibs), b.rows[k].item.id) : k \in 1..Len(b.rows)}

\* C15 (grouping count): a bucket built from a root with two nested
\* descendants, all three in one project, has the header counts 1/3; and in
\* every bucket no task is counted more than once in the total.
C15_GroupingCount ==
    (pc = "grouped") =>
        /\ \A k \in 1..Len(printed) : printed[k].total = Cardinality(BucketTasks(printed[k]))
        /\ (/\ Len(sibs) = 1
            /\ Len(Nodes(sibs)) = 3
            /\ \A q \in 1..3 : Nodes(sibs)[q].node.item.project_id = sibs[1].item.project_id)
           => (Len(printed) = 1 /\ printed[1].visible = 1 /\ printed[1].total = 3)

\* C16 (grouping is a partition): every Node of the forest, at every depth, is
\* a row of exactly one bucket, once, and that bucket is the one of the Node's
\* own project id; the buckets hold nothing else, and no two buckets have the
\* same project id; this whether the grouped listing ran to its end or ended
\* in a panic.
C16_GroupingPartition ==
    (pc \in {"grouped", "group_panicked"}) =>
        LET w == Nodes(sibs) IN
        /\ \A q \in 1..Len(w) :
              \E k \in 1..Len(printed) :
                  /\ printed[k].project_id = w[q].node.item.project_id
                  /\ Cardinality({r \in 1..Len(printed[k].rows) : printed[k].rows[r] = w[q].node}) = 1
                  /\ \A j \in 1..Len(printed) :
                        j # k => \A r \in 1..Len(printed[j].rows) : printed[j].rows[r] # w[q].node
        /\ \A k \in 1..Len(printed) :
              /\ printed[k].rows # <<>>
              /\ \A r \in 1..Len(printed[k].rows) :
                    \E q \in 1..Len(w) : w[q].node = printed[k].rows[r]
        /\ \A j, k \in 1..Len(printed) : j # k => printed[j].project_id # printed[k].project_id

\* The display name of a project: its name in the project table, the raw
\* project id when the table does not know it.
DisplayName(pid) == IF pid \in DOMAIN projects THEN projects[pid] ELSE pid

\* C17 (bucket ordering): the buckets are printed in ascending order of the
\* display name of their project, and each header shows that name; an unknown
\* project has its raw id as the name, for the order and for the header.
C17_BucketOrdering ==
    (pc \in {"grouped", "group_panicked"}) =>
        /\ \A k \in 1..Len(printed) : printed[k].name = DisplayName(printed[k].project_id)
        /\ \A j, k \in 1..Len(printed) :
              j < k => cmp_str(DisplayName(printed[j].project_id),
                               DisplayName(printed[k].project_id)) # "Greater"

\* C17 witness: project "1" is known by the name "3", project "2" is unknown,
\* and the bucket of "2" is printed before the bucket of "1".
C17_Witness ==
    /\ pc = "grouped"
    /\ Len(printed) = 2
    /\ DOMAIN projects = {Digits(1)}
    /\ projects[Digits(1)] = Digits(3)
    /\ printed[1].project_id = Digits(2)
    /\ printed[2].project_id = Digits(1)

\* C24 (listing is read-only): after the ungrouped or the grouped listing,
\* with any sort key, the forest held in the state is the forest that was
\* assembled: same roots in the same order, same children, depths and Records.
C24_ListingReadOnly ==
    (pc \in {"listed", "grouped", "panicked", "group_panicked"}) =>
        /\ tasks = from_items(items).trees
        /\ sibs = tasks

\* C24 witness: the Duration key printed the roots in another order than the
\* forest holds them, and a bucket of the grouped listing was reordered too.
C24_Witness ==
    \/ /\ pc = "listed"
       /\ sort_by = "Duration"
       /\ Len(sibs) = 3
       /\ sorted # sibs
    \/ /\ pc = "grouped"
       /\ sort_by = "Created"
       /\ Len(printed) = 1
       /\ Len(sibs) = 3
       /\ printed[1].rows # sibs

\* C27 (deterministic bucket order): for one forest and one project table
\* the grouped listing is the same whatever the order in which the hash map
\* yields the buckets, also when two project ids have the same display name.
C27_BucketOrderDeterministic ==
    (pc = "grouped") =>
        \A h \in HashOrders(DOMAIN project_groups(sibs)) :
            list_tasks_grouped_by_project(sibs, projects, sort_by, h) = Done(printed)

-----------------------------------------------------------------------------
(* The completed command: date range, pagination, display *)

LastMinute == MinutesPerDay - 1

\* calculate_date_range: the since and until strings sent to the server
calculate_date_range(ps) ==
    LET today == ps.today.date
        monday == today - ps.today.weekday
        Whole(from, to) == [since |-> Zoned(from, 0, 0), until |-> Zoned(to, LastMinute, 0)]
    IN  CASE ps.range = "today" -> Whole(today, today)
          [] ps.range = "yesterday" -> Whole(today - 1, today - 1)
          [] ps.range = "this_week" -> Whole(monday, today)
          [] ps.range = "last_week" -> Whole(monday - 1 - 6, monday - 1)
          [] ps.range = "this_month" -> Whole(today - (ps.today.day - 1), today)
          [] OTHER ->
                IF IsSome(ps.since) /\ IsSome(ps.until)
                THEN [since |-> Unwrap(ps.since), until |-> Unwrap(ps.until)]
                ELSE Whole(today, today)

\* parse_date: YYYY-MM-DD, or an RFC 3339 datetime of which the date is taken
parse_date(s) ==
    IF s.time = None /\ s.offset = None THEN Some(s.day)
    ELSE IF IsSome(parse_from_rfc3339(s)) THEN Some(s.day)
    ELSE None

max_weeks(ps) == IF ps.by_due_date THEN 6 ELSE 12

\* Duration::num_weeks of a span of whole days
num_weeks(days) == days \div 7

\* validate_date_range: the error message, "none" for Ok(())
validate_date_range(since, until, weeks) ==
    IF parse_date(since) = None \/ parse_date(until) = None THEN "Invalid date format"
    ELSE LET since_date == Unwrap(parse_date(since))
             until_date == Unwrap(parse_date(until))
         IN  IF until_date < since_date THEN "'until' date must be after 'since' date"
             ELSE IF num_weeks(until_date - since_date) > weeks
                  THEN IF weeks = 6 THEN "Date range exceeds 6 weeks maximum (API limitation)"
                       ELSE "Date range exceeds 3 months maximum (API limitation)"
             ELSE "none"

\* let (since, until) = calculate_date_range(&params)?; validate_date_range(..)?
ValidateDateRange ==
    /\ pc = "start"
    /\ LET r == calculate_date_range(cparams)
           e == validate_date_range(r.since, r.until, max_weeks(cparams))
       IN  /\ err' = e
           /\ pc' = IF e = "none" THEN "validated" ELSE "failed"
    /\ UNCHANGED <<items, tasks, before, params, left, right, ord, sibs, sort_by, sorted>>
    /\ UNCHANGED <<writeVars, overflow_checks, groupVars, completedVars>>

\* let projects = gw.projects().await?
LookupProjects ==
    /\ pc = "validated"
    /\ \E ok \in BOOLEAN :
          /\ err' = IF ok THEN "none" ELSE "unable to get projects"
          /\ pc' = IF ok THEN "projects_fetched" ELSE "failed"
    /\ UNCHANGED <<items, tasks, before, params, left, right, ord, sibs, sort_by, sorted>>
    /\ UNCHANGED <<writeVars, overflow_checks, groupVars, completedVars>>

\* let sections = gw.sections().await?, then params.project.optional(..)? and
\* params.section.optional(..)?
LookupSections ==
    /\ pc = "projects_fetched"
    /\ \E ok \in BOOLEAN :
          LET project == optional(cparams.project, ProjectIDs)
              section == optional(cparams.section, SectionIDs)
              e == IF ~ok THEN "unable to get sections"
                   ELSE IF project.err # "none" THEN project.err
                   ELSE section.err
          IN  /\ err' = e
              /\ pc' = IF e = "none" THEN "fetching" ELSE "failed"
    /\ UNCHANGED <<items, tasks, before, params, left, right, ord, sibs, sort_by, sorted>>
    /\ UNCHANGED <<writeVars, overflow_checks, groupVars, completedVars>>

\* What the loop does with a response once it has arrived.
DropPage(response) ==
    /\ all_tasks' = all_tasks
    /\ cursor' = response.next_cursor
    /\ pc' = IF ~cparams.fetch_all \/ response.next_cursor = None
             THEN "fetched" ELSE "fetching"

TakePage(response) ==
    /\ all_tasks' = all_tasks \o response.items
    /\ cursor' = response.next_cursor
    /\ pc' = IF ~cparams.fetch_all \/ response.next_cursor = None
             THEN "fetched" ELSE "fetching"

\* One turn of the loop: the request with the current cursor, and its response.
Request ==
    /\ pc = "fetching"
    /\ Len(requests) < MaxRequests
    /\ LET r == calculate_date_range(cparams) IN
       requests' = Append(requests, [since |-> r.since, until |-> r.until,
                                     by_due_date |-> cparams.by_due_date,
                                     project_id |-> optional(cparams.project, ProjectIDs).value,
                                     section_id |-> optional(cparams.section, SectionIDs).value,
                                     cursor |-> cursor])
    /\ IF ~server[cursor].ok
       THEN /\ err' = "failed to fetch completed tasks"
            /\ pc' = "failed"
            /\ UNCHANGED <<all_tasks, cursor>>
       ELSE /\ TakePage(server[cursor])
            /\ UNCHANGED err
    /\ UNCHANGED <<items, tasks, before, params, left, right, ord, sibs, sort_by, sorted>>
    /\ UNCHANGED <<writeVars, overflow_checks, groupVars, cparams, server, shown>>

\* After the loop: nothing found, or display_completed_tasks(&all_tasks, ..)
\* up to the end of Tree::from_items(..)?
Display ==
    /\ pc = "fetched"
    /\ IF all_tasks = <<>>
       THEN /\ pc' = "none_found"
            /\ UNCHANGED <<tasks, err>>
       ELSE LET r == from_items(all_tasks) IN
            IF r.err # "none"
            THEN /\ err' = "failed to build task tree"
                 /\ pc' = "failed"
                 /\ UNCHANGED tasks
            ELSE /\ tasks' = r.trees
                 /\ pc' = "display"
                 /\ UNCHANGED err
    /\ UNCHANGED <<items, before, params, left, right, ord, sibs, sort_by, sorted>>
    /\ UNCHANGED <<writeVars, overflow_checks, groupVars, completedVars>>

RECURSIVE BucketRows(_)
\* The task rows of the buckets, in print order
BucketRows(buckets) ==
    IF buckets = <<>> THEN <<>> ELSE Head(buckets).rows \o BucketRows(Tail(buckets))

\* display_completed_tasks from try_join!(gw.projects(), gw.sections(),
\* gw.labels())? on: the listing, grouped by project or not. shown holds the
\* task rows, printed the buckets of the grouped listing.
DisplayRows ==
    /\ pc = "display"
    /\ \E failing \in {"none", "projects", "sections", "labels"} :
          IF failing # "none"
          THEN /\ err' = "unable to get " \o failing
               /\ pc' = "failed"
               /\ UNCHANGED <<shown, projects, printed>>
          ELSE /\ pc' = "displayed"
               /\ UNCHANGED err
               /\ IF cparams.group_by = Some("Project")
                  THEN \E table \in ProjectTables :
                       \E h \in HashOrders(DOMAIN project_groups(tasks)) :
                          /\ projects' = table
                          /\ printed' = list_tasks_grouped_by_project(tasks, table, "None", h).v
                          /\ shown' = BucketRows(printed')
                  ELSE /\ shown' = list_tasks_with_sort(tasks, "None").v
                       /\ UNCHANGED <<projects, printed>>
    /\ UNCHANGED <<items, tasks, before, params, left, right, ord, sibs, sort_by, sorted>>
    /\ UNCHANGED <<writeVars, overflow_checks, cparams, server, cursor, all_tasks, requests>>

NextCompleted ==
    \/ ValidateDateRange
    \/ LookupProjects
    \/ LookupSections
    \/ Request
    \/ Display
    \/ DisplayRows

\* The state at the start of the command, the parameters and server aside.
CompletedStart ==
    /\ pc = "start"
    /\ cursor = None
    /\ all_tasks = <<>>
    /\ requests = <<>>
    /\ shown = <<>>
    /\ items = <<>>
    /\ tasks = <<>>
    /\ err = "none"
    /\ before = <<>>
    /\ params = NoParams
    /\ left = NoTask
    /\ right = NoTask
    /\ ord = "Equal"
    /\ sibs = <<>>
    /\ sort_by = "None"
    /\ sorted = <<>>
    /\ overflow_checks = FALSE
    /\ GroupIdle
    /\ WriteIdle

Cursors == {Some("a"), Some("b")}

\* A CompletedTasksResponse, and the outcome of a request that fails
Page(its, next) == [ok |-> TRUE, items |-> its, next_cursor |-> next]

Failure == [ok |-> FALSE, items |-> <<>>, next_cursor |-> None]

-----------------------------------------------------------------------------
(* Specification SpecRange: the completed command over date ranges *)

DateStrings ==
    {DateOnly(d) : d \in 0..LastDay} \cup {Zoned(d, t, 0) : d \in 0..LastDay, t \in {0, 60}}
    \cup {Floating(0, 0)}

Todays == {[date |-> 40, weekday |-> w, day |-> d] : w \in {0, 6}, d \in {1, 31}}

RangeParams ==
    {[NoCompletedParams EXCEPT !.since = Some(s), !.until = Some(u), !.by_due_date = b] :
        s \in {DateOnly(0), DateOnly(1), Zoned(0, 60, 0), Floating(0, 0)},
        u \in DateStrings, b \in BOOLEAN}
    \cup {[NoCompletedParams EXCEPT !.since = s, !.by_due_date = b, !.today = t] :
        s \in {None, Some(DateOnly(0))}, b \in BOOLEAN, t \in Todays}
    \cup {[NoCompletedParams EXCEPT !.range = r, !.by_due_date = b, !.today = t] :
        r \in {"today", "yesterday", "this_week", "last_week", "this_month"},
        b \in BOOLEAN, t \in Todays}

\* a server with one page
OnePage == [c \in {None} \cup Cursors |->
               IF c = None THEN Page(<<Task(Digits(1), None, Digits(1))>>, None) ELSE Failure]

InitRange ==
    /\ CompletedStart
    /\ cparams \in RangeParams
    /\ server = OnePage

SpecRange == InitRange /\ [][NextCompleted]_vars

\* The range the command works with, as day numbers and as instants.
RangeOf(ps) == calculate_date_range(ps)

WellFormed(s) == s.time = None \/ s.offset # None

Instant(s) == s.day * MinutesPerDay + (IF s.time = None THEN 0 ELSE s.time[1] - s.offset[1])

\* until is before since: on an earlier day, or at an earlier time when both
\* have a time.
Before(until, since) ==
    \/ until.day < since.day
    \/ until.time # None /\ since.time # None /\ Instant(until) < Instant(since)

\* The command has failed on its date range
Rejected ==
    /\ pc = "failed"
    /\ requests = <<>>
    /\ err \notin {"unable to get projects", "unable to get sections", "no selection"}

\* C19 (date range limit): for since and until in an accepted format, the
\* command fails before any request whenever until is before since and
\* whenever until is more than 42 days after since with --by-due-date, more
\* than 84 days without it; every other range is accepted.
C19_DateRangeLimit ==
    (pc # "start" /\ WellFormed(RangeOf(cparams).since) /\ WellFormed(RangeOf(cparams).until)) =>
        LET since == RangeOf(cparams).since
            until == RangeOf(cparams).until
            limit == IF cparams.by_due_date THEN 42 ELSE 84
        IN  Rejected <=> \/ Before(until, since)
                         \/ until.day - since.day > limit

-----------------------------------------------------------------------------
(* Specification SpecPages: the completed command over servers *)

Responses ==
    {Page(its, next) :
        its \in {<<>>, <<Task(Digits(1), None, Digits(1))>>,
                 <<Task(Digits(3), None, Digits(1)), Task(Digits(2), None, Digits(1))>>},
        next \in {None} \cup Cursors}
    \cup {Failure}

Servers == [{None} \cup Cursors -> Responses]

InitPages ==
    /\ CompletedStart
    /\ cparams \in {[NoCompletedParams EXCEPT !.fetch_all = a, !.by_due_date = b, !.group_by = g,
                                             !.project = p, !.section = sec] :
                       a \in BOOLEAN, b \in BOOLEAN, g \in {None, Some("Project")},
                       p \in {None, Some(Digits(1)), Some(Digits(0))},
                       sec \in {None, Some(Digits(0))}}
    /\ server \in Servers

SpecPages == InitPages /\ [][NextCompleted]_vars

RECURSIVE Concat(_)
\* The items of the responses to a sequence of requests, one after another.
Concat(reqs) ==
    IF reqs = <<>> THEN <<>>
    ELSE server[Head(reqs).cursor].items \o Concat(Tail(reqs))

\* C20 (pagination): the first request has no cursor and each later request
\* has the next_cursor of the response before it; a request follows only a
\* response with a next_cursor, and only with --all; when the loop has ended,
\* with --all the last response has no next_cursor and without --all exactly
\* one request was made; the list that is displayed is the concatenation of
\* the items of all pages in request order, and its rows are those items.
C20_Pagination ==
    /\ \A k \in 1..Len(requests) :
          /\ k = 1 => requests[k].cursor = None
          /\ k > 1 => /\ cparams.fetch_all
                      /\ server[requests[k - 1].cursor].ok
                      /\ server[requests[k - 1].cursor].next_cursor # None
                      /\ requests[k].cursor = server[requests[k - 1].cursor].next_cursor
    /\ (pc \in {"fetched", "none_found", "display", "displayed"}) =>
          /\ requests # <<>>
          /\ \A k \in 1..Len(requests) : server[requests[k].cursor].ok
          /\ cparams.fetch_all => server[requests[Len(requests)].cursor].next_cursor = None
          /\ ~cparams.fetch_all => Len(requests) = 1
          /\ all_tasks = Concat(requests)
    /\ (pc = "displayed") =>
          /\ Len(shown) = Len(all_tasks)
          /\ \A k \in 1..Len(all_tasks) : \E j \in 1..Len(shown) : shown[j].item = all_tasks[k]
    /\ (pc = "none_found") => (all_tasks = <<>> /\ shown = <<>>)

\* C20 witness: with --all three pages were requested, the second with the
\* cursor of the first response and the third with that of the second, and
\* the three items were displayed.
C20_Witness ==
    /\ pc = "displayed"
    /\ cparams.fetch_all
    /\ Len(requests) = 3
    /\ requests[2].cursor # requests[3].cursor
    /\ Len(shown) = 3

-----------------------------------------------------------------------------
(* Specification SpecLabels: filter_list with a label selection *)

\* the labels a selection can resolve to; "gone" is no label of the state
LabelSelections ==
    {<<>>, <<Label("9", "gone")>>} \cup {<<l>> : l \in KnownLabels}
    \cup {<<l, m>> : l \in KnownLabels, m \in KnownLabels \ {Label("home", "office")}}

\* Task::labels holds label names
TaskLabels == {<<>>, <<"home">>, <<"work">>, <<"home", "work">>}

LabelIDs == {Digits(1), Digits(2)}

LabelTasks ==
    {[Task(i, par, proj) EXCEPT !.labels = ls] :
        i \in LabelIDs, par \in {None} \cup {Some(j) : j \in LabelIDs},
        proj \in ProjectIDs, ls \in TaskLabels}

LabelParams ==
    [expand : BOOLEAN,
     filter : {TaskIDs},
     project : {None} \cup {Some(p) : p \in ProjectIDs},
     section : {None},
     label : LabelSelections]

InitLabels ==
    /\ pc = "list"
    /\ \E n \in 0..Cardinality(LabelIDs) : items \in [1..n -> LabelTasks]
    /\ params \in LabelParams
    /\ tasks = <<>>
    /\ err = "none"
    /\ before = <<>>
    /\ left = NoTask
    /\ right = NoTask
    /\ ord = "Equal"
    /\ sibs = <<>>
    /\ sort_by = "None"
    /\ sorted = <<>>
    /\ overflow_checks = FALSE
    /\ GroupIdle
    /\ CompletedIdle
    /\ WriteIdle

SpecLabels == InitLabels /\ [][NextFetch]_vars

\* The Record has at least one of the selected labels: its label list, which
\* holds names, contains the name of a selected label.
HasSelectedLabel(ps, item) ==
    \E k \in 1..Len(ps.label) : ps.label[k].name \in Range(item.labels)

\* C29 (label filter matches the task's labels): with expand = false, a Node
\* is in the filtered forest if and only if its Record and the Record of each
\* of its ancestors is in the selected project and section and, when labels
\* are selected, has at least one of the selected labels by name.
C29_LabelFilter ==
    (pc = "filtered" /\ ~params.expand) =>
        LET wb == Nodes(before)
            wa == Nodes(tasks)
        IN  \A i \in WalkIds(wb) :
                (i \in WalkIds(wa)) <=>
                    \A a \in SelfAndAncestors(wb, i) :
                        /\ Sat(params, At(wb, a).node.item)
                        /\ params.label # <<>> => HasSelectedLabel(params, At(wb, a).node.item)

-----------------------------------------------------------------------------
(* The add and edit commands: validation of --deadline and --duration *)

\* A string is a sequence of pieces: a digit, a run of digits, a sign, the
\* colon, a word. Digits(piece) are the decimal digits of a piece of digits.
DigitsOf(piece) ==
    CASE piece = "0" -> <<0>>
      [] piece = "5" -> <<5>>
      [] piece = "429496729" -> <<4, 2, 9, 4, 9, 6, 7, 2, 9>>
      [] OTHER -> <<>>

RECURSIVE Flatten(_)
\* The decimal digits of a string of digit pieces, in order.
Flatten(str) == IF str = <<>> THEN <<>> ELSE DigitsOf(Head(str)) \o Flatten(Tail(str))

\* x + d in u32 for a digit d: None when the sum leaves u32
checked_add(x, d) ==
    IF x.hi + (x.lo + d) \div Limb >= Limb THEN None
    ELSE Some([hi |-> x.hi + (x.lo + d) \div Limb, lo |-> (x.lo + d) % Limb])

\* x * 10 in u32: None when the product leaves u32
checked_mul(x, k) == IF mul_overflows(x, k) THEN None ELSE Some(wrapping_mul(x, k))

RECURSIVE from_digits(_, _)
\* result = result.checked_mul(10)?.checked_add(digit)? over the digits
from_digits(acc, ds) ==
    IF ds = <<>> THEN Some(acc)
    ELSE LET m == checked_mul(acc, 10) IN
         IF m = None THEN None
         ELSE LET a == checked_add(Unwrap(m), Head(ds)) IN
              IF a = None THEN None ELSE from_digits(Unwrap(a), Tail(ds))

\* str.parse::<u32>(): an optional '+', then one or more decimal digits, the
\* value within u32; None for Err
parse_u32(str) ==
    LET body == IF str # <<>> /\ Head(str) = "+" THEN Tail(str) ELSE str IN
    IF body = <<>> \/ \E k \in 1..Len(body) : DigitsOf(body[k]) = <<>> THEN None
    ELSE from_digits(u32(0), Flatten(body))

\* str.split_once(':'): the parts before and after the first colon
split_once(str) ==
    IF \A k \in 1..Len(str) : str[k] # ":" THEN None
    ELSE LET c == CHOOSE k \in 1..Len(str) : str[k] = ":" /\ \A j \in 1..(k - 1) : str[j] # ":"
         IN  Some([amount_str |-> SubSeq(str, 1, c - 1), unit_str |-> SubSeq(str, c + 1, Len(str))])

parse_duration_any_unit(duration_str) ==
    LET parts == split_once(duration_str) IN
    IF parts = None
    THEN [err |-> "Invalid duration format", duration |-> None, duration_unit |-> None]
    ELSE LET amount == parse_u32(Unwrap(parts).amount_str)
             unit_str == Unwrap(parts).unit_str
         IN  IF amount = None
             THEN [err |-> "Invalid duration amount", duration |-> None, duration_unit |-> None]
             ELSE IF Unwrap(amount) = u32(0)
             THEN [err |-> "Duration amount must be greater than zero",
                   duration |-> None, duration_unit |-> None]
             ELSE [err |-> "none", duration |-> amount,
                   duration_unit |-> Some(IF unit_str = <<"minute">> THEN "Minute" ELSE "Day")]

\* The block of add and edit that reads "<amount>:<unit>": the error, or the
\* amount and unit set on the request
parse_duration(duration_str) ==
    LET parts == split_once(duration_str) IN
    IF parts = None
    THEN [err |-> "Invalid duration format", duration |-> None, duration_unit |-> None]
    ELSE LET amount == parse_u32(Unwrap(parts).amount_str)
             unit_str == Unwrap(parts).unit_str
         IN  IF amount = None
             THEN [err |-> "Invalid duration amount", duration |-> None, duration_unit |-> None]
             ELSE IF Unwrap(amount) = u32(0)
             THEN [err |-> "Duration amount must be greater than zero",
                   duration |-> None, duration_unit |-> None]
             ELSE IF unit_str = <<"minute">>
             THEN [err |-> "none", duration |-> amount, duration_unit |-> Some("Minute")]
             ELSE IF unit_str = <<"day">>
             THEN [err |-> "none", duration |-> amount, duration_unit |-> Some("Day")]
             ELSE [err |-> "Invalid duration unit", duration |-> None, duration_unit |-> None]

\* NaiveDate::parse_from_str(s, "%Y-%m-%d").is_ok()
is_date(s) == s.time = None /\ s.offset = None

\* The request body that add and edit fill in, and the error they return
\* before any create or update request; due_missing is the test each command
\* makes for a duration without a due.
fill(ps, due_missing) ==
    LET body == [labels |-> ps.labels,
                 due |-> ps.due,
                 deadline_date |-> IF IsSome(ps.deadline) /\ is_date(Unwrap(ps.deadline))
                                   THEN ps.deadline ELSE None,
                 duration |-> None, duration_unit |-> None]
    IN  IF IsSome(ps.deadline) /\ ~is_date(Unwrap(ps.deadline))
        THEN [err |-> "Invalid deadline format", body |-> body]
        ELSE IF ps.duration = None THEN [err |-> "none", body |-> body]
        ELSE IF due_missing THEN [err |-> "Duration requires a due date", body |-> body]
        ELSE LET d == parse_duration(Unwrap(ps.duration)) IN
             [err |-> d.err,
              body |-> [body EXCEPT !.duration = d.duration, !.duration_unit = d.duration_unit]]

\* What can become of one exchange with the server
Outcomes ==
    {"204", "200", "200_unparsable", "400", "429", "500", "not_sent", "timed_out", "unreadable"}

\* The server carried the request out
Applied(o) == o \in {"204", "200", "200_unparsable", "timed_out", "unreadable"}

\* ExponentialBackoff::builder().build_with_max_retries(3)
MaxRetries == 3

\* RetryTransientMiddleware: a connection error, a timeout, a server error and
\* 429 are transient, and the request is sent again after a wait
Transient(o) == o \in {"not_sent", "timed_out", "500", "429"}

\* No request has been sent again yet
NoRetries == [create |-> 0, update |-> 0, close |-> 0]

\* The client sends the request again: retries so far have been made
retry(o, retries) == Transient(o) /\ retries < MaxRetries

\* handle_req: the result the caller sees for the outcome the client hands on
handle_req(o) ==
    CASE o = "not_sent"       -> "unable to send request"
      [] o = "timed_out"      -> "unable to send request"
      [] o = "204"            -> "Ok"
      [] o = "unreadable"     -> "unable to read response"
      [] o \in {"400", "429", "500"} -> "Bad response from API"
      [] o = "200_unparsable" -> "unable to parse API response"
      [] o = "200"            -> "Ok"

\* What the write commands leave alone
WriteFrame ==
    /\ UNCHANGED <<items, tasks, before, params, left, right, ord, sibs, sort_by, sorted>>
    /\ UNCHANGED <<overflow_checks, groupVars, completedVars, wparams, remote, faults>>

\* add: try_join!(gw.projects(), gw.sections())?, both requests in flight
\* together, then params.project.optional(..)? and params.section.optional(..)?
AddLookups ==
    /\ pc = "ready"
    /\ \E failing \in {"none", "projects", "sections"} :
          LET project == optional(wparams.project, ProjectIDs)
              section == optional(wparams.section, SectionIDs)
              e == IF failing # "none" THEN "unable to get " \o failing
                   ELSE IF project.err # "none" THEN project.err
                   ELSE section.err
          IN  /\ err' = e
              /\ pc' = IF e = "none" THEN "add_joined" ELSE "added"
    /\ UNCHANGED sent
    /\ WriteFrame

\* add: params.labels.labels(&gw.labels().await?, AllowEmpty)?
AddLabels ==
    /\ pc = "add_joined"
    /\ \E ok \in BOOLEAN :
          LET e == IF ~ok THEN "unable to get labels"
                   ELSE labels(wparams.labels, {l.name : l \in KnownLabels}).err
          IN  /\ err' = e
              /\ pc' = IF e = "none" THEN "add_looked_up" ELSE "added"
    /\ UNCHANGED sent
    /\ WriteFrame

\* add: the checks of the deadline and the duration, then, when labels were
\* given, the second gw.labels().await?
AddFill ==
    /\ pc = "add_looked_up"
    /\ LET f == fill(wparams, wparams.due = None) IN
       IF f.err # "none"
       THEN /\ err' = f.err
            /\ pc' = "added"
       ELSE \E failing \in {"none"} \cup (IF f.body.labels # <<>> THEN {"labels"} ELSE {}) :
               /\ err' = IF failing = "none" THEN "none" ELSE "unable to get labels"
               /\ pc' = IF failing = "none" THEN "add_filled" ELSE "added"
    /\ UNCHANGED sent
    /\ WriteFrame

\* create_task: one exchange of gw.create(&create).await?: the POST is on the
\* wire and the client sends it again, or hands the outcome to handle_req;
\* an answer without a task is an error of create
AddCreate ==
    /\ pc = "add_filled"
    /\ \E o \in Outcomes :
          LET result == IF retry(o, faults.create) THEN "retry"
                        ELSE IF handle_req(o) = "Ok" /\ o # "204" THEN "Ok"
                        ELSE "unable to create task"
          IN  /\ sent' = Append(sent, [kind |-> "create",
                                       project_id |-> optional(wparams.project, ProjectIDs).value,
                                       section_id |-> optional(wparams.section, SectionIDs).value,
                                       body |-> fill(wparams, wparams.due = None).body,
                                       result |-> result])
              /\ faults' = IF result = "retry" THEN [faults EXCEPT !.create = @ + 1] ELSE faults
              /\ IF result = "retry"
                 THEN UNCHANGED <<pc, err>>
                 ELSE /\ pc' = "added"
                      /\ err' = IF result = "Ok" THEN "none" ELSE result
    /\ UNCHANGED <<items, tasks, before, params, left, right, ord, sibs, sort_by, sorted>>
    /\ UNCHANGED <<overflow_checks, groupVars, completedVars, wparams, remote>>

\* edit: params.labels.labels(&gw.labels().await?, AllowEmpty)?
EditLabels ==
    /\ pc = "ready"
    /\ \E ok \in BOOLEAN :
          LET e == IF ~ok THEN "unable to get labels"
                   ELSE labels(wparams.labels, {l.name : l \in KnownLabels}).err
          IN  /\ err' = e
              /\ pc' = IF e = "none" THEN "edit_looked_up" ELSE "edited"
    /\ UNCHANGED sent
    /\ WriteFrame

\* edit: the checks of the deadline and the duration, then
\* params.task.task_id(gw, cfg).await?
EditFill ==
    /\ pc = "edit_looked_up"
    /\ LET f == fill(wparams, wparams.due = None /\ ~IsSome(wparams.due)) IN
       IF f.err # "none"
       THEN /\ err' = f.err
            /\ pc' = "edited"
       ELSE \E failing \in BOOLEAN :
               /\ err' = IF failing THEN "no task selected" ELSE "none"
               /\ pc' = IF failing THEN "edited" ELSE "edit_filled"
    /\ UNCHANGED sent
    /\ WriteFrame

\* edit: one exchange of gw.update(&id, &update).await
EditUpdate ==
    /\ pc = "edit_filled"
    /\ \E o \in Outcomes :
          LET result == IF retry(o, faults.update) THEN "retry"
                        ELSE IF handle_req(o) = "Ok" THEN "Ok"
                        ELSE "unable to update task"
          IN  /\ sent' = Append(sent, [kind |-> "update", project_id |-> None, section_id |-> None,
                                       body |-> fill(wparams, wparams.due = None
                                                              /\ ~IsSome(wparams.due)).body,
                                       result |-> result])
              /\ faults' = IF result = "retry" THEN [faults EXCEPT !.update = @ + 1] ELSE faults
              /\ IF result = "retry"
                 THEN UNCHANGED <<pc, err>>
                 ELSE /\ pc' = "edited"
                      /\ err' = IF result = "Ok" THEN "none" ELSE result
    /\ UNCHANGED <<items, tasks, before, params, left, right, ord, sibs, sort_by, sorted>>
    /\ UNCHANGED <<overflow_checks, groupVars, completedVars, wparams, remote>>

-----------------------------------------------------------------------------
(* Specification SpecWrite: add and edit over their parameters; the project, *)
(* section and label selections vary where no duration is given             *)

Pieces == {"0", "5", "429496729", "+", ":", "minute", "day", "x"}

InitWrite ==
    /\ pc = "ready"
    /\ \E due \in {None, Some("tomorrow")},
          deadline \in {None, Some(DateOnly(1)), Some(Floating(1, 0))},
          ls \in {<<>>, <<"home">>} :
          \/ \E project \in {None, Some(Digits(1)), Some(Digits(0))},
                section \in {None, Some(Digits(1)), Some(Digits(0))},
                selected \in {ls, <<"gone">>} :
                wparams = [due |-> due, deadline |-> deadline, duration |-> None,
                           project |-> project, section |-> section, labels |-> selected]
          \/ \E n \in 0..MaxChars : \E str \in [1..n -> Pieces] :
                wparams = [due |-> due, deadline |-> deadline, duration |-> Some(str),
                           project |-> None, section |-> None, labels |-> ls]
    /\ faults = NoRetries
    /\ sent = <<>>
    /\ remote = <<>>
    /\ err = "none"
    /\ items = <<>>
    /\ tasks = <<>>
    /\ before = <<>>
    /\ params = NoParams
    /\ left = NoTask
    /\ right = NoTask
    /\ ord = "Equal"
    /\ sibs = <<>>
    /\ sort_by = "None"
    /\ sorted = <<>>
    /\ overflow_checks = FALSE
    /\ GroupIdle
    /\ CompletedIdle

NextWrite ==
    \/ AddLookups
    \/ AddLabels
    \/ AddFill
    \/ AddCreate
    \/ EditLabels
    \/ EditFill
    \/ EditUpdate

SpecWrite == InitWrite /\ [][NextWrite]_vars

\* The string is '<amount>:<unit>' with a positive integer amount and the
\* unit 'minute' or 'day': decimal digits that are not all zero, with or
\* without a plus sign before them, a colon, the unit.
WellFormedDuration(str) ==
    \E c \in 1..Len(str) :
        LET number == SubSeq(str, 1, c - 1)
            ds == IF number # <<>> /\ Head(number) = "+" THEN Tail(number) ELSE number
        IN  /\ ds # <<>>
            /\ \A k \in 1..Len(ds) : ds[k] \in {"0", "5", "429496729"}
            /\ \E k \in 1..Len(ds) : ds[k] # "0"
            /\ str[c] = ":"
            /\ SubSeq(str, c + 1, Len(str)) \in {<<"minute">>, <<"day">>}

\* C21 (duration requires a due date): when add or edit runs with a
\* duration and no due, with a deadline that is not a YYYY-MM-DD date, or with
\* a duration that is not '<amount>:<unit>' with a positive integer amount and
\* the unit 'minute' or 'day', it sends no create-task or update-task request
\* at any point, and it has returned an error when it has ended.
C21_DurationRequiresDue ==
    (\/ wparams.duration # None /\ wparams.due = None
     \/ wparams.deadline # None /\ ~is_date(wparams.deadline[1])
     \/ wparams.duration # None /\ ~WellFormedDuration(wparams.duration[1]))
    => /\ sent = <<>>
       /\ pc \in {"added", "edited"} => err # "none"
       /\ pc \notin {"add_filled", "edit_filled"}

\* C21 witness: edit has run with a well-formed duration and deadline but no
\* due, and add with a due and the duration "5:hour"-like unit "x".
C21_Witness ==
    \/ /\ pc = "edited"
       /\ wparams.due = None
       /\ wparams.duration = Some(<<"5", ":", "day">>)
       /\ wparams.deadline = Some(DateOnly(1))
       /\ err = "Duration requires a due date"
    \/ /\ pc = "added"
       /\ wparams.due # None
       /\ wparams.duration = Some(<<"5", ":", "x">>)
       /\ err = "Invalid duration unit"

-----------------------------------------------------------------------------
(* Gateway::complete: the update of the due date, then the close *)

\* What can become of one request: the status the server answers with, or the
\* place where the exchange breaks. "not_sent" never reaches the server;
\* "timed_out" and "unreadable" reach it and lose the answer.
\* The server's task after POST api/v1/tasks/{id} with a due_datetime
updated(task, body) == [task EXCEPT !.due = body.due]

\* The server's task after POST api/v1/tasks/{id}/close
closed(task) == [task EXCEPT !.is_completed = TRUE]

\* complete with the error of the update ignored, the close sent regardless
CompleteUpdate_without_try ==
    /\ pc = "ready"
    /\ \E o \in Outcomes :
          LET body == [due |-> Some(wparams.now)]
              result == IF retry(o, faults.update) THEN "retry" ELSE handle_req(o)
          IN  /\ sent' = Append(sent, [kind |-> "update", id |-> wparams.id, body |-> body,
                                       result |-> result])
              /\ remote' = IF Applied(o) THEN updated(remote, body) ELSE remote
              /\ faults' = IF result = "retry" THEN [faults EXCEPT !.update = @ + 1] ELSE faults
              /\ pc' = IF result = "retry" THEN "ready" ELSE "updated"
              /\ UNCHANGED err
    /\ UNCHANGED <<items, tasks, before, params, left, right, ord, sibs, sort_by, sorted>>
    /\ UNCHANGED <<overflow_checks, groupVars, completedVars, wparams>>

\* complete, one exchange of self.update(..).await.wrap_err(..)?: the POST is
\* on the wire, the server answers or not, and the client sends it again,
\* or hands the outcome to handle_req and the update returns
CompleteUpdate ==
    /\ pc = "ready"
    /\ \E o \in Outcomes :
          LET body == [due |-> Some(wparams.now)]
              result == IF retry(o, faults.update) THEN "retry" ELSE handle_req(o)
          IN  /\ sent' = Append(sent, [kind |-> "update", id |-> wparams.id, body |-> body,
                                       result |-> result])
              /\ remote' = IF Applied(o) THEN updated(remote, body) ELSE remote
              /\ faults' = IF result = "retry" THEN [faults EXCEPT !.update = @ + 1] ELSE faults
              /\ IF result = "retry"
                 THEN UNCHANGED <<pc, err>>
                 ELSE IF result = "Ok"
                 THEN /\ pc' = "updated"
                      /\ UNCHANGED err
                 ELSE /\ pc' = "returned"
                      /\ err' = "unable to complete task"
    /\ UNCHANGED <<items, tasks, before, params, left, right, ord, sibs, sort_by, sorted>>
    /\ UNCHANGED <<overflow_checks, groupVars, completedVars, wparams>>

\* complete, one exchange of self.close(id).await.wrap_err(..)?, up to the
\* return of complete when the client does not send it again
CompleteClose ==
    /\ pc = "updated"
    /\ \E o \in Outcomes :
          LET result == IF retry(o, faults.close) THEN "retry" ELSE handle_req(o)
          IN  /\ sent' = Append(sent, [kind |-> "close", id |-> wparams.id, body |-> <<>>,
                                       result |-> result])
              /\ remote' = IF Applied(o) THEN closed(remote) ELSE remote
              /\ faults' = IF result = "retry" THEN [faults EXCEPT !.close = @ + 1] ELSE faults
              /\ IF result = "retry"
                 THEN UNCHANGED <<pc, err>>
                 ELSE /\ pc' = "returned"
                      /\ err' = IF result = "Ok" THEN "none" ELSE "unable to complete task"
    /\ UNCHANGED <<items, tasks, before, params, left, right, ord, sibs, sort_by, sorted>>
    /\ UNCHANGED <<overflow_checks, groupVars, completedVars, wparams>>

-----------------------------------------------------------------------------
(* Specification SpecComplete: complete on one open task, over the outcomes
   of the exchanges of its two requests *)

InitComplete ==
    /\ pc = "ready"
    /\ \E i \in TaskIDs,
          due \in {None, Some(DateOnly(1)), Some(Zoned(1, 0, 0))},
          now \in {Zoned(d, t, 0) : d \in 1..MaxDay, t \in {0, 1}} :
          /\ remote = [id |-> i, due |-> due, is_completed |-> FALSE]
          /\ wparams = [id |-> i, now |-> now, task |-> remote]
    /\ faults = NoRetries
    /\ sent = <<>>
    /\ err = "none"
    /\ items = <<>>
    /\ tasks = <<>>
    /\ before = <<>>
    /\ params = NoParams
    /\ left = NoTask
    /\ right = NoTask
    /\ ord = "Equal"
    /\ sibs = <<>>
    /\ sort_by = "None"
    /\ sorted = <<>>
    /\ overflow_checks = FALSE
    /\ GroupIdle
    /\ CompletedIdle

NextComplete == CompleteUpdate \/ CompleteClose

SpecComplete == InitComplete /\ [][NextComplete]_vars

\* The update request complete sends: the task's id, the due set to now
IsUpdateToNow(r) ==
    r.kind = "update" /\ r.id = wparams.id /\ r.body = [due |-> Some(wparams.now)]

\* C22 (update, then close): the first POST complete sends is the update of
\* the task's due to the current time; every POST of the close request is for
\* the same task id and comes after an update POST whose result was Ok, before
\* which only update POSTs that were sent again went out, so a close is never
\* sent when the update failed; a request is not sent more than 1 + 3 times;
\* and complete returns Ok only when the update and the close both had the
\* result Ok.
C22_UpdateThenClose ==
    /\ Len(sent) >= 1 => IsUpdateToNow(sent[1])
    /\ \A k \in 1..Len(sent) :
          sent[k].kind = "close" =>
              /\ sent[k].id = wparams.id
              /\ \E j \in 1..(k - 1) :
                    /\ sent[j].kind = "update" /\ sent[j].result = "Ok"
                    /\ \A i \in 1..(j - 1) : sent[i].kind = "update" /\ sent[i].result = "retry"
                    /\ \A i \in (j + 1)..(k - 1) : sent[i].kind = "close" /\ sent[i].result = "retry"
    /\ \A kind \in {"update", "close"} :
          Cardinality({k \in 1..Len(sent) : sent[k].kind = kind}) <= 1 + MaxRetries
    /\ (pc = "returned" /\ err = "none") =>
          /\ sent[Len(sent)].kind = "close"
          /\ sent[Len(sent)].result = "Ok"
          /\ \E j \in 1..Len(sent) : sent[j].kind = "update" /\ sent[j].result = "Ok"

\* C22 witness: complete has returned Ok after an update that went through at
\* the second try and a close that went through at the first.
C22_Witness ==
    /\ pc = "returned"
    /\ err = "none"
    /\ Len(sent) = 3
    /\ sent[1].kind = "update" /\ sent[1].result = "retry"
    /\ sent[2].kind = "update" /\ sent[2].result = "Ok"
    /\ sent[3].kind = "close" /\ sent[3].result = "Ok"

\* C28 (all or nothing): whenever complete has returned an error, the task
\* on the server is as it was before the command: its due has not been
\* overwritten with the current time while the task is still open.
C28_CompleteAllOrNothing ==
    (pc = "returned" /\ err # "none") => remote = wparams.task

====
